---------------------------- MODULE Spec2Model ----------------------------
(***************************************************************************)
(* Model of the multi-provider dispatch layer of sensei_common:            *)
(*   - LLMRouter.generate / LLMRouter._call_provider     (llm_router.py)   *)
(*   - EmbeddingClient.embed / _embed_single             (embedding_client)*)
(*   - EmbeddingRouter.resolve_route / get_provider      (embedding_router)*)
(*   - RedisClient.get / RedisClient.set                 (redis_client.py) *)
(*   - LLMRouter.from_yaml_file / EmbeddingRouter.from_yaml_file           *)
(*   - EmbeddingClient._fingerprint as a function of (text, model)         *)
(* Optional values (Python None / a value) are sequences of length 0 or 1. *)
(* Python strings that the code inspects are sequences of characters.      *)
(***************************************************************************)
EXTENDS Integers, Sequences, FiniteSets, TLC

VARIABLES gen, emb, cache, ld, fp, rb, av, kc, dl, ont

vars == <<gen, emb, cache, ld, fp, rb, av, kc, dl, ont>>

None == <<>>
Some(x) == <<x>>

\* a lookup that answers with the default for every key
DictGetDefaultOnly(d, key, default) == default

\* dict.get(key, default)
DictGet(d, key, default) == IF key \in DOMAIN d THEN d[key] ELSE default

(***************************************************************************)
(* LLM router configuration, as from_yaml_file builds it from a YAML file. *)
(***************************************************************************)
LLMProviderNames == {"azure-gpt", "groq-llama", "hf-gen", "local-gen"}

\* LLMProvider records of the catalog (self._providers)
llm_providers ==
  [n \in LLMProviderNames |->
     CASE n = "azure-gpt"  -> [name |-> n, provider_type |-> "azure_openai",    retries |-> 2]
       [] n = "groq-llama" -> [name |-> n, provider_type |-> "groq",            retries |-> 3]
       [] n = "hf-gen"     -> [name |-> n, provider_type |-> "huggingface_api", retries |-> 1]
       [] n = "local-gen"  -> [name |-> n, provider_type |-> "ollama",          retries |-> 0]]

LLMRouteNames == {"authoring.generate", "vendor.summary", "vendor.classify",
                  "local.draft"}

\* LLMRoute records registered under their use case (self._routes)
llm_routes ==
  [u \in LLMRouteNames |->
     CASE u = "authoring.generate" ->
            [name |-> u, strategy |-> "primary-fallback",
             providers |-> <<"azure-gpt", "groq-llama">>, weights |-> None]
       [] u = "vendor.summary" ->
            [name |-> u, strategy |-> "weighted",
             providers |-> <<"azure-gpt", "groq-llama">>, weights |-> Some(<<3, 1>>)]
       [] u = "vendor.classify" ->
            [name |-> u, strategy |-> "weighted",
             providers |-> <<"groq-llama", "azure-gpt">>, weights |-> None]
       [] u = "local.draft" ->
            [name |-> u, strategy |-> "primary-fallback",
             providers |-> <<"local-gen">>, weights |-> None]]

\* the route named "default" (self._default_route)
llm_default_route ==
  [name |-> "default", strategy |-> "primary-fallback",
   providers |-> <<"local-gen", "hf-gen", "azure-gpt">>, weights |-> None]

\* use cases a caller may pass to generate
LLMUseCases == LLMRouteNames \cup {"nonexistent.case"}

\* LLMRouter._resolve_route: dict.get(use_case, default)
LLM_resolve_route(use_case) == DictGet(llm_routes, use_case, llm_default_route)

(***************************************************************************)
(* Outcomes of one HTTP request of LLMRouter._call_provider.               *)
(***************************************************************************)
\* what one client.post can end in: a well-formed 200, a timeout, a 5xx,
\* a 4xx, or a 200 whose body is not of the provider's shape
LLMResponses == {"ok", "timeout", "http5xx", "http4xx", "malformed"}

TransientResponses == {"timeout", "http5xx"}

\* LLMRouter._extract_text applied to a 200 body
ExtractText(provider, response) ==
  IF provider.provider_type \in {"azure_openai", "groq"}
  THEN IF response = "ok"
       THEN [ok |-> TRUE,  text |-> "content",  exc |-> "-"]
       ELSE [ok |-> FALSE, text |-> "-",        exc |-> "KeyError"]
  ELSE IF provider.provider_type = "huggingface_api" /\ response = "ok"
       THEN [ok |-> TRUE,  text |-> "generated_text", exc |-> "-"]
       ELSE [ok |-> TRUE,  text |-> "str(data)",      exc |-> "-"]

\* the body of the try block of _call_provider for one attempt:
\* post, raise_for_status, json, _extract_text
AttemptOutcome(provider, response) ==
  CASE response = "timeout" -> [ok |-> FALSE, text |-> "-", exc |-> "TimeoutException"]
    [] response \in {"http5xx", "http4xx"} ->
                               [ok |-> FALSE, text |-> "-", exc |-> "HTTPStatusError"]
    [] OTHER -> ExtractText(provider, response)

\* an exception object, tagged with the provider whose call raised it
Error(type, provider, response) ==
  [type |-> type, provider |-> provider, response |-> response]

\* random.choices(providers, weights=weights, k=1): the indices it can draw
WeightedChoices(providers, weights) ==
  IF Len(weights) # Len(providers) THEN {}
  ELSE {i \in 1..Len(providers) : weights[i] > 0}

GenIdle ==
  [pc |-> "idle", use_case |-> "-", strategy |-> "-", providers |-> <<>>,
   mode |-> "-", idx |-> 0, attempt |-> 0, last_error |-> None,
   result |-> None, error |-> None, requests |-> <<>>, gave_up |-> <<>>]

\* generate, lines 148-158: resolve the route, build the provider list, and
\* either draw one provider (weighted with weights) or start the fallback loop
Generate(use_case) ==
  /\ gen.pc \in {"idle", "done"}
  /\ LET route == LLM_resolve_route(use_case)
         start == [GenIdle EXCEPT !.use_case = use_case,
                                  !.strategy = route.strategy,
                                  !.providers = route.providers]
     IN IF route.strategy = "weighted" /\ route.weights # None /\ route.weights[1] # <<>>
        THEN \E i \in WeightedChoices(route.providers, route.weights[1]) :
               gen' = [start EXCEPT !.pc = "provider", !.mode = "single", !.idx = i]
        ELSE IF Len(route.providers) = 0
        THEN gen' = [start EXCEPT !.pc = "done", !.mode = "fallback",
                       !.error = Some(Error("RuntimeError", "-", "-"))]
        ELSE gen' = [start EXCEPT !.pc = "provider", !.mode = "fallback", !.idx = 1]
  /\ UNCHANGED <<emb, cache, ld, fp, rb, av, kc, dl, ont>>

\* what generate does with an exception that _call_provider raised for the
\* provider at gen.idx (lines 155 and 162-174)
ProviderRaised(g, exc) ==
  LET g1 == [g EXCEPT !.gave_up = Append(@, g.providers[g.idx])]
  IN IF g.mode = "single"
     THEN [g1 EXCEPT !.pc = "done", !.error = Some(exc)]
     ELSE IF g.idx < Len(g.providers)
          THEN [g1 EXCEPT !.pc = "provider", !.idx = @ + 1, !.attempt = 0,
                          !.last_error = Some(exc)]
          ELSE [g1 EXCEPT !.pc = "done", !.last_error = Some(exc), !.error = Some(exc)]

\* _call_provider entered for the provider at gen.idx (lines 185-194 and 218):
\* range(1, retries + 1) is empty when retries < 1
CallProvider ==
  /\ gen.pc = "provider"
  /\ LET p == llm_providers[gen.providers[gen.idx]]
     IN IF p.retries >= 1
        THEN gen' = [gen EXCEPT !.pc = "request", !.attempt = 1]
        ELSE gen' = ProviderRaised(gen, Error("RuntimeError", p.name, "-"))
  /\ UNCHANGED <<emb, cache, ld, fp, rb, av, kc, dl, ont>>

\* a retry loop that makes one attempt more than provider.retries
HttpAttemptOneMore(response) ==
  /\ gen.pc = "request"
  /\ LET p   == llm_providers[gen.providers[gen.idx]]
         out == AttemptOutcome(p, response)
         g1  == [gen EXCEPT !.requests =
                    Append(@, [provider |-> p.name, response |-> response,
                               waited |-> 0])]
     IN IF out.ok
        THEN gen' = [g1 EXCEPT !.pc = "done",
                               !.result = Some([provider |-> p.name, text |-> out.text])]
        ELSE IF gen.attempt = p.retries + 1
             THEN gen' = ProviderRaised(g1, Error(out.exc, p.name, response))
             ELSE gen' = [g1 EXCEPT !.attempt = @ + 1]
  /\ UNCHANGED <<emb, cache, ld, fp, rb, av, kc, dl, ont>>

\* one iteration of the retry loop (lines 194-216): one HTTP request; the
\* loop body holds no sleep, so the request follows the failed one at once
\* (waited: the milliseconds slept since the previous attempt)
HttpAttempt(response) ==
  /\ gen.pc = "request"
  /\ LET p   == llm_providers[gen.providers[gen.idx]]
         out == AttemptOutcome(p, response)
         g1  == [gen EXCEPT !.requests =
                    Append(@, [provider |-> p.name, response |-> response,
                               waited |-> 0])]
     IN IF out.ok
        THEN gen' = [g1 EXCEPT !.pc = "done",
                               !.result = Some([provider |-> p.name, text |-> out.text])]
        ELSE IF gen.attempt = p.retries
             THEN gen' = ProviderRaised(g1, Error(out.exc, p.name, response))
             ELSE gen' = [g1 EXCEPT !.attempt = @ + 1]
  /\ UNCHANGED <<emb, cache, ld, fp, rb, av, kc, dl, ont>>

(***************************************************************************)
(* Embedding router configuration (EmbeddingRouter.from_yaml_file).        *)
(***************************************************************************)
EmbProviderNames == {"azure-embed", "hf-endpoint", "groq-embed"}

\* EmbeddingProvider records of the catalog (EmbeddingRouter._providers)
emb_providers ==
  [n \in EmbProviderNames |->
     CASE n = "azure-embed" ->
            [name |-> n, provider_type |-> "azure_openai",
             model |-> <<"m", "1">>, embedding_dim |-> 2]
       [] n = "hf-endpoint" ->
            [name |-> n, provider_type |-> "huggingface_endpoint",
             model |-> <<"m", "2">>, embedding_dim |-> 3]
       [] n = "groq-embed" ->
            [name |-> n, provider_type |-> "groq",
             model |-> <<"m", "3">>, embedding_dim |-> 2]]

EmbRouteNames == {"vendor.embedding", "authoring.embedding"}

\* EmbeddingRoute records registered under their use case (EmbeddingRouter._routes)
emb_routes ==
  [u \in EmbRouteNames |->
     CASE u = "vendor.embedding" ->
            [name |-> u, strategy |-> "primary-fallback",
             providers |-> <<"azure-embed", "hf-endpoint">>, weights |-> None]
       [] u = "authoring.embedding" ->
            [name |-> u, strategy |-> "weighted",
             providers |-> <<"azure-embed", "groq-embed">>, weights |-> Some(<<1, 1>>)]]

\* the route named "default" (EmbeddingRouter._default_route)
emb_default_route ==
  [name |-> "default", strategy |-> "primary-fallback",
   providers |-> <<"hf-endpoint", "groq-embed">>, weights |-> None]

\* use cases a caller may pass to embed
EmbUseCases == EmbRouteNames \cup {"nonexistent.case"}

\* EmbeddingRouter.resolve_route: dict.get(use_case, default)
resolve_route(use_case) == DictGet(emb_routes, use_case, emb_default_route)

\* EmbeddingRouter.get_provider
get_provider(name) == emb_providers[name]

(***************************************************************************)
(* Fingerprint and cache key (EmbeddingClient._fingerprint).               *)
(***************************************************************************)
\* a separator test that knows the blank only
IsSpaceBlankOnly(ch) == ch = " "

\* the characters str.split() treats as separators
IsSpace(ch) == ch \in {" ", "\t", "\n"}

RECURSIVE SplitAcc(_, _, _)
\* text.split(): the maximal runs of non-whitespace characters, in order
SplitAcc(text, words, cur) ==
  IF text = <<>>
  THEN IF cur = <<>> THEN words ELSE Append(words, cur)
  ELSE IF IsSpace(Head(text))
       THEN SplitAcc(Tail(text), IF cur = <<>> THEN words ELSE Append(words, cur), <<>>)
       ELSE SplitAcc(Tail(text), words, Append(cur, Head(text)))

Split(text) == SplitAcc(text, <<>>, <<>>)

RECURSIVE Join(_)
\* " ".join(words)
Join(words) ==
  IF words = <<>> THEN <<>>
  ELSE IF Len(words) = 1 THEN Head(words)
  ELSE Head(words) \o <<" ">> \o Join(Tail(words))

\* normalized = " ".join(text.split())
Normalize(text) == Join(Split(text))

\* hashlib.sha256(raw).hexdigest(): the digest is identified with the bytes
\* it was computed from (a collision-free hash)
Sha256(raw) == [sha256 |-> raw]

\* _fingerprint(text, model): sha256 of f"{model}::{normalized}"
Fingerprint(text, model) == Sha256(model \o <<":", ":">> \o Normalize(text))

\* cache_key = f"emb:{fingerprint}"
CacheKey(text, model) == [prefix |-> "emb:", fp |-> Fingerprint(text, model)]

\* the texts callers embed: " a\t\nb" and "c"
Texts == { <<" ", "a", "\t", "\n", "b">>, <<"c">> }

\* the lists of texts passed to embed: each text alone, and both together
SingleTexts == { <<t>> : t \in Texts }

TextLists == SingleTexts \cup { << <<"c">>, <<" ", "a", "\t", "\n", "b">> >> }

Models == { emb_providers[n].model : n \in EmbProviderNames }

CacheKeys == { CacheKey(t, m) : t \in Texts, m \in Models }

(***************************************************************************)
(* Provider responses and their normalisation (_call_provider).            *)
(***************************************************************************)
\* the float lists a backend may send
Vectors == { <<1, 2>>, <<5, 6, 7>> }

\* a Python value: a list with its items, or a dict with its number of keys
PyList(v) == [type |-> "list", items |-> v, len |-> Len(v)]
PyDict(n) == [type |-> "dict", items |-> <<>>, len |-> n]

\* What one client.post can end in: a 5xx status, or a 200 whose JSON body is
\*   "embedding": {"data": [{"embedding": vec}]}
\*   "flat":      vec
\*   "batch":     [vec, ...]
\*   "object":    {"error": "..."}
EmbResponses ==
  {[kind |-> "http5xx", vec |-> <<>>], [kind |-> "object", vec |-> <<>>]}
  \cup {[kind |-> k, vec |-> v] : k \in {"embedding", "flat", "batch"}, v \in Vectors}

\* _call_provider, lines 195-218: raise_for_status, then the response shape
\* mapped to a vector; len(vector) is taken for the log line
EmbCallProvider(provider, resp) ==
  IF resp.kind = "http5xx"
  THEN [ok |-> FALSE, vector |-> PyDict(0), exc |-> "HTTPStatusError"]
  ELSE IF provider.provider_type \in {"azure_openai", "groq", "ollama"}
  THEN CASE resp.kind = "embedding" ->
              [ok |-> TRUE, vector |-> PyList(resp.vec), exc |-> "-"]
         [] resp.kind = "object" ->
              [ok |-> FALSE, vector |-> PyDict(0), exc |-> "KeyError"]
         [] OTHER ->
              [ok |-> FALSE, vector |-> PyDict(0), exc |-> "TypeError"]
  ELSE \* huggingface_api, huggingface_endpoint
       CASE resp.kind \in {"batch", "flat"} ->
              [ok |-> TRUE, vector |-> PyList(resp.vec), exc |-> "-"]
         [] OTHER ->
              [ok |-> TRUE, vector |-> PyDict(1), exc |-> "-"]

\* an encoder that loses the items of the value
JsonDumpsNoItems(value) ==
  [json |-> IF value.type = "list" THEN "array" ELSE "object",
   items |-> <<>>, len |-> value.len]

\* json.dumps(value): the JSON text, by the value it denotes
JsonDumps(value) ==
  [json |-> IF value.type = "list" THEN "array" ELSE "object",
   items |-> value.items, len |-> value.len]

\* a decoder that never yields a list
JsonLoadsNoList(text) ==
  [type |-> "dict", items |-> text.items, len |-> text.len]

\* json.loads(text)
JsonLoads(text) ==
  [type |-> IF text.json = "array" THEN "list" ELSE "dict",
   items |-> text.items, len |-> text.len]

(***************************************************************************)
(* EmbeddingClient.embed and _embed_single.                                *)
(***************************************************************************)
EmbCallers == {"c1", "c2"}

EmbIdle ==
  [pc |-> "idle", use_case |-> "-", strategy |-> "-", providers |-> <<>>,
   texts |-> <<>>, i |-> 0, results |-> <<>>, cache_key |-> None,
   idx |-> 0, vector |-> None, last_error |-> None, error |-> None,
   requests |-> <<>>, served_by |-> "-", cache_read |-> "-",
   cache_write |-> "-", prior |-> None]

\* an entry into _embed_single that goes to the providers without a cache read
StartSingleSkipsRead(e, i) ==
  LET primary == get_provider(e.providers[1])
      key     == CacheKey(e.texts[i], primary.model)
  IN [e EXCEPT !.pc = "provider", !.i = i, !.cache_key = Some(key),
               !.idx = 1, !.vector = None, !.last_error = None,
               !.requests = <<>>, !.served_by = "-", !.cache_read = "-",
               !.cache_write = "-", !.prior = None]

\* _embed_single entered for texts[i] (lines 112-116): the cache key is built
\* from the model of the first provider of the list
StartSingle(e, i) ==
  LET primary == get_provider(e.providers[1])
      key     == CacheKey(e.texts[i], primary.model)
  IN [e EXCEPT !.pc = "cache_get", !.i = i, !.cache_key = Some(key),
               !.idx = 0, !.vector = None, !.last_error = None,
               !.requests = <<>>, !.served_by = "-", !.cache_read = "-",
               !.cache_write = "-",
               !.prior = IF cache[key] = None THEN None
                         ELSE Some(JsonLoads(cache[key][1]).items)]

\* embed, lines 93-99: resolve the route, look the providers up, and enter
\* _embed_single for the first text
Embed(c, texts, use_case) ==
  /\ emb[c].pc \in {"idle", "done"}
  /\ LET route == resolve_route(use_case)
         start == [EmbIdle EXCEPT !.use_case = use_case,
                                  !.strategy = route.strategy,
                                  !.providers = route.providers,
                                  !.texts = texts]
     IN emb' = [emb EXCEPT ![c] = StartSingle(start, 1)]
  /\ UNCHANGED <<gen, cache, ld, fp, rb, av, kc, dl, ont>>

\* a result list that grows at the front
SingleReturnedAtFront(e, vector, by) ==
  [e EXCEPT !.pc = "single_done", !.results = <<vector>> \o @,
            !.vector = None, !.served_by = by]

\* _embed_single returned `vector` for texts[i]: embed appends it (line 100)
\* and goes on to the next text, or returns the results (line 103)
SingleReturned(e, vector, by) ==
  [e EXCEPT !.pc = "single_done", !.results = Append(@, vector),
            !.vector = None, !.served_by = by]

\* _embed_single raised `exc`: embed does not catch it
SingleRaised(e, exc) ==
  [e EXCEPT !.pc = "single_done", !.error = Some(exc), !.vector = None]

\* the end of one iteration of the provider loop that did not return
\* (lines 137, 157 and the fall-through of the except block), and the
\* statements after the loop (lines 159-161)
NextProvider(e, last_error) ==
  IF e.idx < Len(e.providers)
  THEN [e EXCEPT !.pc = "provider", !.idx = @ + 1, !.vector = None,
                 !.last_error = last_error]
  ELSE IF last_error # None
       THEN SingleRaised([e EXCEPT !.last_error = last_error], last_error[1])
       ELSE SingleRaised(e, Error("RuntimeError", "-", "-"))

\* the except block of the provider loop (lines 147-157): the error is kept,
\* and the loop goes on to the next provider, by `continue` on a
\* primary-fallback route and by reaching the end of the loop body otherwise
ExceptBlock(e, exc) ==
  IF e.strategy = "primary-fallback"
  THEN NextProvider(e, Some(exc))
  ELSE NextProvider(e, Some(exc))

\* a dimension check that lets every vector pass
DimensionOkAlways(vector, provider) == TRUE

\* the dimension check of line 128
DimensionOk(vector, provider) == vector.len = provider.embedding_dim

\* the result cached under the model of the provider that served it
WriteKeyServingModel(e) ==
  CacheKey(e.texts[e.i], get_provider(e.providers[e.idx]).model)

\* the key handed to RedisClient.set (line 141)
WriteKey(e) == e.cache_key[1]

\* a write or an eviction of `key` made by someone other than caller c: the
\* calls in flight for that key no longer follow an undisturbed earlier call
Disturb(es, key, c) ==
  [d \in EmbCallers |->
     IF d # c /\ es[d].cache_key = Some(key)
          /\ es[d].pc \in {"cache_get", "provider", "cache_set"}
     THEN [es[d] EXCEPT !.prior = None] ELSE es[d]]

\* RedisClient.get (lines 42-51) and lines 117-121 of _embed_single
CacheGet(c, fails) ==
  /\ emb[c].pc = "cache_get"
  /\ LET e      == emb[c]
         key    == e.cache_key[1]
         cached == cache[key]
     IN IF fails
        THEN emb' = [emb EXCEPT ![c] =
                  SingleRaised([e EXCEPT !.cache_read = "failed"],
                               Error("RedisError", "-", "get"))]
        ELSE IF cached # None /\ JsonLoads(cached[1]).type = "list"
        THEN emb' = [emb EXCEPT ![c] =
                  SingleReturned([e EXCEPT !.cache_read = "hit"],
                                 JsonLoads(cached[1]).items, "cache")]
        ELSE emb' = [emb EXCEPT ![c] =
                  NextProvider([e EXCEPT !.cache_read = "miss"], None)]
  /\ UNCHANGED <<gen, cache, ld, fp, rb, av, kc, dl, ont>>

\* one iteration of the provider loop up to the cache write (lines 125-139)
EmbHttpRequest(c, resp) ==
  /\ emb[c].pc = "provider"
  /\ LET e   == emb[c]
         p   == get_provider(e.providers[e.idx])
         out == EmbCallProvider(p, resp)
         log(o) == [e EXCEPT !.requests =
                      Append(@, [provider |-> p.name, outcome |-> o])]
     IN IF ~out.ok
        THEN emb' = [emb EXCEPT ![c] =
                        ExceptBlock(log("raised"), Error(out.exc, p.name, "-"))]
        ELSE IF ~DimensionOk(out.vector, p)
        THEN emb' = [emb EXCEPT ![c] = NextProvider(log("mismatch"), e.last_error)]
        ELSE emb' = [emb EXCEPT ![c] =
                        [log("valid") EXCEPT !.pc = "cache_set",
                                             !.vector = Some(out.vector)]]
  /\ UNCHANGED <<gen, cache, ld, fp, rb, av, kc, dl, ont>>

\* RedisClient.set (lines 53-73) and lines 140-157 of _embed_single
CacheSet(c, fails) ==
  /\ emb[c].pc = "cache_set"
  /\ LET e   == emb[c]
         key == WriteKey(e)
         p   == get_provider(e.providers[e.idx])
     IN IF fails
        THEN /\ emb' = [emb EXCEPT ![c] =
                  ExceptBlock([e EXCEPT !.cache_write = "failed"],
                              Error("RedisError", "-", "set"))]
             /\ UNCHANGED cache
        ELSE /\ cache' = [cache EXCEPT ![key] = Some(JsonDumps(e.vector[1]))]
             /\ emb' = [Disturb(emb, key, c) EXCEPT ![c] =
                  SingleReturned([e EXCEPT !.cache_write = "ok"],
                                 e.vector[1].items, p.name)]
  /\ UNCHANGED <<gen, ld, fp, rb, av, kc, dl, ont>>

\* embed's loop over the texts (lines 98-103) after _embed_single ended
EmbedContinue(c) ==
  /\ emb[c].pc = "single_done"
  /\ LET e == emb[c]
     IN IF e.error # None \/ e.i = Len(e.texts)
        THEN emb' = [emb EXCEPT ![c] =
                  [EmbIdle EXCEPT !.pc = "done", !.use_case = e.use_case,
                                  !.texts = e.texts, !.results = e.results,
                                  !.error = e.error]]
        ELSE emb' = [emb EXCEPT ![c] = StartSingle(e, e.i + 1)]
  /\ UNCHANGED <<gen, cache, ld, fp, rb, av, kc, dl, ont>>

\* the TTL of a cache entry runs out, or Redis evicts it
Expire(key) ==
  /\ cache[key] # None
  /\ cache' = [cache EXCEPT ![key] = None]
  /\ emb' = Disturb(emb, key, "-")
  /\ UNCHANGED <<gen, ld, fp, rb, av, kc, dl, ont>>

(***************************************************************************)
(* Loading a router from a YAML document (from_yaml_file), and the first   *)
(* lines of generate and embed on the loaded router.                       *)
(***************************************************************************)
\* the entries a providers section may hold; B leaves retries to the default
ProviderCfg ==
  [n \in {"A", "B"} |->
     IF n = "A"
     THEN [provider_type |-> "azure_openai", endpoint |-> "https://a",
           model |-> "m1", embedding_dim |-> 2, retries |-> 2]
     ELSE [provider_type |-> "groq", endpoint |-> "https://b",
           model |-> "m2", embedding_dim |-> 3]]

\* the providers sections of the documents: both providers, or A alone
Catalogs == { [n \in S |-> ProviderCfg[n]] : S \in {{"A", "B"}, {"A"}} }

\* the entries a routes section may hold, with and without a weights key
RouteCfgs ==
  LET Strategies == {"primary-fallback", "weighted"}
      Lists      == { <<"A">>, <<"A", "B">> }
      Weights    == { <<1>>, <<1, 0>>, <<2, 1>> }
  IN { [strategy |-> st, providers |-> ps] : st \in Strategies, ps \in Lists }
     \cup { [strategy |-> st, providers |-> ps, weights |-> ws] :
              st \in Strategies, ps \in Lists, ws \in Weights }

\* the documents yaml.safe_load may return: a providers section and a routes
\* section that holds any of "default" and "r1"
YamlDocuments ==
  { [providers |-> cat, routes |-> rs] :
      cat \in Catalogs,
      rs \in UNION { [names -> RouteCfgs] : names \in SUBSET {"default", "r1"} } }

\* the LLMRoute / EmbeddingRoute built from one entry of the routes section
RouteOf(route_name, rcfg) ==
  [name |-> route_name, strategy |-> rcfg.strategy, providers |-> rcfg.providers,
   weights |-> IF "weights" \in DOMAIN rcfg THEN Some(rcfg.weights) ELSE None]

\* a loader that accepts a document without a default route
LLMRouter_from_yaml_file_unchecked(data) ==
  [ok |-> TRUE,
   router |-> [providers |-> [name \in DOMAIN data.providers |-> name],
               routes |-> [n \in DOMAIN data.routes |-> RouteOf(n, data.routes[n])],
               default_route |->
                 IF "default" \in DOMAIN data.routes
                 THEN RouteOf("default", data.routes["default"])
                 ELSE RouteOf("default",
                        [strategy |-> "primary-fallback", providers |-> <<>>])]]

\* LLMRouter.from_yaml_file applied to the parsed document
LLMRouter_from_yaml_file(data) ==
  LET providers ==
        [name \in DOMAIN data.providers |->
           LET cfg == data.providers[name]
           IN [name |-> name, provider_type |-> cfg.provider_type,
               endpoint |-> cfg.endpoint, api_key |-> DictGet(cfg, "api_key", ""),
               model |-> cfg.model,
               timeout_ms |-> DictGet(cfg, "timeout_ms", 10000),
               retries |-> DictGet(cfg, "retries", 3)]]
      routes == [n \in DOMAIN data.routes \ {"default"} |-> RouteOf(n, data.routes[n])]
  IN IF "default" \notin DOMAIN data.routes
     THEN [ok |-> FALSE, exc |-> "ValueError"]
     ELSE [ok |-> TRUE,
           router |-> [providers |-> providers, routes |-> routes,
                       default_route |-> RouteOf("default", data.routes["default"])]]

\* EmbeddingRouter.from_yaml_file applied to the parsed document
EmbeddingRouter_from_yaml_file(data) ==
  LET providers ==
        [name \in DOMAIN data.providers |->
           LET cfg == data.providers[name]
           IN [name |-> name, provider_type |-> cfg.provider_type,
               endpoint |-> cfg.endpoint, api_key |-> DictGet(cfg, "api_key", ""),
               model |-> cfg.model, embedding_dim |-> cfg.embedding_dim,
               timeout_ms |-> DictGet(cfg, "timeout_ms", 5000),
               retries |-> DictGet(cfg, "retries", 3)]]
      routes == [n \in DOMAIN data.routes \ {"default"} |-> RouteOf(n, data.routes[n])]
  IN IF "default" \notin DOMAIN data.routes
     THEN [ok |-> FALSE, exc |-> "ValueError"]
     ELSE [ok |-> TRUE,
           router |-> [providers |-> providers, routes |-> routes,
                       default_route |-> RouteOf("default", data.routes["default"])]]

RouterKinds == {"llm", "embedding"}

\* use cases passed to the loaded router: a routed one, the name of the
\* default route, and one no route is named after
LoadUseCases == {"r1", "default", "other"}

LdIdle ==
  [pc |-> "none", kind |-> "-", data |-> None, router |-> None, error |-> None,
   use_case |-> "-", route |-> None, lookup |-> "-"]

\* from_yaml_file: a router is constructed, or the load raises
FromYamlFile(kind, data) ==
  /\ ld.pc = "none"
  /\ LET out == IF kind = "llm" THEN LLMRouter_from_yaml_file(data)
                ELSE EmbeddingRouter_from_yaml_file(data)
         l   == [LdIdle EXCEPT !.kind = kind, !.data = Some(data)]
     IN IF out.ok
        THEN ld' = [l EXCEPT !.pc = "loaded", !.router = Some(out.router)]
        ELSE ld' = [l EXCEPT !.pc = "failed", !.error = Some(out.exc)]
  /\ UNCHANGED <<gen, emb, cache, fp, rb, av, kc, dl, ont>>

\* a resolution that registers the default route under a use case it did not
\* find (dict.setdefault in place of dict.get)
ResolveRouteRegisters(use_case) ==
  /\ ld.pc \in {"loaded", "resolved", "built"}
  /\ LET router == ld.router[1]
         route  == DictGet(router.routes, use_case, router.default_route)
         routes == [n \in DOMAIN router.routes \cup {use_case} |->
                      IF n \in DOMAIN router.routes THEN router.routes[n] ELSE route]
     IN ld' = [ld EXCEPT !.pc = "resolved", !.use_case = use_case,
                 !.route = Some(route), !.lookup = "-",
                 !.router = Some([router EXCEPT !.routes = routes])]
  /\ UNCHANGED <<gen, emb, cache, fp, rb, av, kc, dl, ont>>

\* _resolve_route / resolve_route on the loaded router
ResolveRoute(use_case) ==
  /\ ld.pc \in {"loaded", "resolved", "built"}
  /\ LET router == ld.router[1]
     IN ld' = [ld EXCEPT !.pc = "resolved", !.use_case = use_case,
                 !.route = Some(DictGet(router.routes, use_case, router.default_route)),
                 !.lookup = "-"]
  /\ UNCHANGED <<gen, emb, cache, fp, rb, av, kc, dl, ont>>

\* the provider list that generate (lines 150-151) and embed (lines 94-95)
\* build from the resolved route: self._providers[name] for each name
BuildProviders ==
  /\ ld.pc = "resolved"
  /\ LET router == ld.router[1]
         names  == ld.route[1].providers
     IN ld' = [ld EXCEPT !.pc = "built",
                 !.lookup = IF \A j \in 1..Len(names) : names[j] \in DOMAIN router.providers
                            THEN "ok" ELSE "KeyError"]
  /\ UNCHANGED <<gen, emb, cache, fp, rb, av, kc, dl, ont>>

(***************************************************************************)
(* _fingerprint over all short texts.                                      *)
(***************************************************************************)
\* the longest text fingerprinted
MaxTextLen == 3

\* the characters of those texts: two letters and the three separators
TextChars == {"a", "b", " ", "\t", "\n"}

ShortTexts == UNION { [1..k -> TextChars] : k \in 0..MaxTextLen }

FpIdle == [pc |-> "idle", text |-> <<>>, model |-> <<>>, normalized |-> <<>>,
           value |-> None]

\* one call of _fingerprint(text, model) (lines 61-68)
FingerprintCall(text, model) ==
  /\ fp' = [pc |-> "called", text |-> text, model |-> model,
            normalized |-> Normalize(text),
            value |-> Some(Fingerprint(text, model))]
  /\ UNCHANGED <<gen, emb, cache, ld, rb, av, kc, dl, ont>>

(***************************************************************************)
(* retry_with_backoff (common/sensei_common/utils/decorators.py): one call *)
(* of a wrapped coroutine.  The wrapped function is the environment: each  *)
(* invocation returns, raises a SenseiError (retriable or not) or raises   *)
(* some other exception.                                                   *)
(***************************************************************************)
\* the largest retries argument a wrapper is built with
MaxRetries == 3

\* the defaults of the decorator's delay arguments, in milliseconds
base_delay_ms == 200

max_delay_ms == 2000

\* what one invocation of the wrapped function does
RbOutcomes ==
  { [kind |-> "return", retriable |-> FALSE],
    [kind |-> "SenseiError", retriable |-> TRUE],
    [kind |-> "SenseiError", retriable |-> FALSE],
    [kind |-> "Exception", retriable |-> FALSE] }

\* random.random() in tenths: the lowest value, a middle one, the highest
RandomTenths == {0, 5, 9}

RbIdle == [pc |-> "idle", retries |-> 0, attempt |-> 0, log |-> <<>>,
           sleeps |-> <<>>, result |-> None, error |-> None]

\* a wrapper that gives up one failure later
ShouldRaiseOneLater(retriable, attempt, retries) ==
  ~retriable \/ attempt > retries + 1

\* a wrapper that does not look at the retriable flag
ShouldRaiseAnyKind(retriable, attempt, retries) ==
  attempt > retries

\* the test that re-raises the caught SenseiError
ShouldRaise(retriable, attempt, retries) ==
  ~retriable \/ attempt > retries

Min(a, b) == IF a <= b THEN a ELSE b

\* the capped exponential delay before jitter
Delay(attempt) == Min(max_delay_ms, base_delay_ms * (2 ^ (attempt - 1)))

\* delay * (0.8 + random.random() * 0.4)
Jitter(delay, tenths) == (delay * (80 + 4 * tenths)) \div 100

\* async_wrapper is entered: attempt = 0
RetryCall(n) ==
  /\ rb.pc = "idle"
  /\ rb' = [RbIdle EXCEPT !.pc = "invoke", !.retries = n]
  /\ UNCHANGED <<gen, emb, cache, ld, fp, av, kc, dl, ont>>

\* one pass of the loop body up to the sleep: await func(...), and the
\* except clause when it raises a SenseiError.  The value an invocation
\* returns is its number; an error records the invocation that raised it.
Invoke(outcome) ==
  /\ rb.pc = "invoke"
  /\ LET log == Append(rb.log, outcome)
         no == Len(log)
         attempt == rb.attempt + 1
         raised == Some([kind |-> outcome.kind, retriable |-> outcome.retriable,
                         invocation |-> no])
     IN  rb' =
           IF outcome.kind = "return"
           THEN [rb EXCEPT !.pc = "done", !.log = log, !.result = Some(no)]
           ELSE IF outcome.kind = "SenseiError"
           THEN IF ShouldRaise(outcome.retriable, attempt, rb.retries)
                THEN [rb EXCEPT !.pc = "done", !.log = log,
                                !.attempt = attempt, !.error = raised]
                ELSE [rb EXCEPT !.pc = "sleep", !.log = log,
                                !.attempt = attempt]
           ELSE [rb EXCEPT !.pc = "done", !.log = log, !.error = raised]
  /\ UNCHANGED <<gen, emb, cache, ld, fp, av, kc, dl, ont>>

\* the jittered delay is computed and slept, and the loop starts over
Sleep(tenths) ==
  /\ rb.pc = "sleep"
  /\ rb' = [rb EXCEPT !.pc = "invoke",
                      !.sleeps = Append(@, Jitter(Delay(rb.attempt), tenths))]
  /\ UNCHANGED <<gen, emb, cache, ld, fp, av, kc, dl, ont>>

(***************************************************************************)
(* Autosave (services/authoring_api): AutosaveService.autosave_draft over  *)
(* one document, called by two clients at once.  The document row lives in *)
(* authoring_docs, its content in one blob at the row's storage path.      *)
(* Every await of the service is a point where the other call may run.     *)
(***************************************************************************)
AvCallers == {"a1", "a2"}

\* document contents: "s" is the one stored at the start
Contents == {"s", "x", "y"}

\* the authoring_docs row as the first request finds it (None: no such row)
DocRows ==
  { None,
    Some([version |-> 1, status |-> "draft", storage_path_raw |-> "p",
          last_updated |-> 0]),
    Some([version |-> 1, status |-> "published", storage_path_raw |-> "p",
          last_updated |-> 0]) }

\* the requests each client sends one after the other
MaxAutosaves == 2

\* stored is an observation, not a variable of the service: the blob content
\* at the moment the call read the document row; wrote tells whether the call
\* has uploaded its content; calls counts the client's requests
AvCallIdle == [pc |-> "idle", content |-> "s", draft |-> None, stored |-> None,
               current_content |-> None, result |-> None, error |-> None,
               wrote |-> FALSE, calls |-> 0]

\* initial, saved and last_saved are observations: the row as seeded, the
\* number of calls that returned "saved" and the content of the latest of them
AvIdle == [seeded |-> FALSE, doc |-> None, blob |-> "s", clock |-> 0,
           call |-> [c \in AvCallers |-> AvCallIdle],
           initial |-> None, saved |-> 0, last_saved |-> None]

\* the state of the table and the blob store when the first request arrives
AuthoringDocs(row) ==
  /\ ~av.seeded
  /\ av' = [av EXCEPT !.seeded = TRUE, !.doc = row, !.initial = row]
  /\ UNCHANGED <<gen, emb, cache, ld, fp, rb, kc, dl, ont>>

\* a status test that lets every document through
StatusAlwaysDraft(row) == TRUE

\* status = draft.get('status', 'draft') is 'draft' (lines 63-65)
StatusIsDraft(row) == row.status = "draft"

AvRaise(c, kind) ==
  [av EXCEPT !.call[c].pc = "done", !.call[c].error = Some(kind)]

\* autosave_draft up to its first blob access: get_draft_by_id, the missing
\* document test and the status test (lines 41-71)
AutosaveDraft(c, content, db_ok) ==
  /\ av.seeded
  /\ av.call[c].pc \in {"idle", "done"}
  /\ av.call[c].calls < MaxAutosaves
  /\ LET started ==
           [av EXCEPT !.call[c] = [AvCallIdle EXCEPT !.content = content,
                                                     !.stored = Some(av.blob),
                                                     !.calls = av.call[c].calls + 1]]
     IN  av' =
           IF ~db_ok
           THEN [started EXCEPT !.call[c].pc = "done",
                                !.call[c].error = Some("DatabaseException")]
           ELSE IF av.doc = None
           THEN [started EXCEPT !.call[c].pc = "done",
                                !.call[c].error = Some("DocumentNotFoundException")]
           ELSE IF ~StatusIsDraft(av.doc[1])
           THEN [started EXCEPT !.call[c].pc = "done",
                                !.call[c].draft = av.doc,
                                !.call[c].error = Some("InvalidStatusException")]
           ELSE [started EXCEPT !.call[c].pc = "fetch",
                                !.call[c].draft = av.doc]
  /\ UNCHANGED <<gen, emb, cache, ld, fp, rb, kc, dl, ont>>

\* a comparison that never finds the content unchanged
ContentNeverUnchanged(current_content, new_content) == FALSE

\* current_content == new_content (line 89)
ContentUnchanged(current_content, new_content) ==
  current_content = new_content

\* fetch_markdown_content and the comparison with the submitted content
\* (lines 73-103)
FetchContent(c, blob_ok) ==
  /\ av.call[c].pc = "fetch"
  /\ LET call == av.call[c]
     IN  av' =
           IF ~blob_ok
           THEN AvRaise(c, "BlobStorageException")
           ELSE IF ContentUnchanged(av.blob, call.content)
           THEN [av EXCEPT !.call[c].pc = "done",
                           !.call[c].current_content = Some(av.blob),
                           !.call[c].result =
                             Some([status |-> "unchanged",
                                   new_version |-> call.draft[1].version,
                                   last_updated |-> call.draft[1].last_updated])]
           ELSE [av EXCEPT !.call[c].pc = "save",
                           !.call[c].current_content = Some(av.blob)]
  /\ UNCHANGED <<gen, emb, cache, ld, fp, rb, kc, dl, ont>>

\* save_markdown_content (lines 105-118): the upload overwrites the blob
\* (overwrite=True); the audit write after it swallows its own failures
SaveContent(c, blob_ok) ==
  /\ av.call[c].pc = "save"
  /\ av' = IF ~blob_ok
           THEN AvRaise(c, "BlobStorageException")
           ELSE [av EXCEPT !.blob = av.call[c].content,
                           !.call[c].wrote = TRUE,
                           !.call[c].pc = "update"]
  /\ UNCHANGED <<gen, emb, cache, ld, fp, rb, kc, dl, ont>>

\* update_draft_with_versioning matching on any version
update_draft_unversioned(doc, expected_version, now) ==
  IF doc # None
  THEN Some([doc[1] EXCEPT !.version = @ + 1, !.last_updated = now])
  ELSE None

\* update_draft_with_versioning (repositories/autosave.py lines 78-100): one
\* UPDATE ... WHERE version = expected_version RETURNING; None when no row
\* matched
update_draft_with_versioning(doc, expected_version, now) ==
  IF doc # None /\ doc[1].version = expected_version
  THEN Some([doc[1] EXCEPT !.version = @ + 1, !.last_updated = now])
  ELSE None

\* the versioned update and what autosave_draft makes of it (lines 120-191)
UpdateDraft(c, db_ok) ==
  /\ av.call[c].pc = "update"
  /\ LET call == av.call[c]
         now == av.clock + 1
         updated_draft ==
           update_draft_with_versioning(av.doc, call.draft[1].version, now)
     IN  av' =
           IF ~db_ok
           THEN AvRaise(c, "DatabaseException")
           ELSE IF updated_draft = None
           THEN AvRaise(c, "VersionConflictException")
           ELSE [av EXCEPT !.doc = updated_draft, !.clock = now,
                           !.saved = @ + 1,
                           !.last_saved = Some(call.content),
                           !.call[c].pc = "done",
                           !.call[c].result =
                             Some([status |-> "saved",
                                   new_version |-> updated_draft[1].version,
                                   last_updated |-> now])]
  /\ UNCHANGED <<gen, emb, cache, ld, fp, rb, kc, dl, ont>>

(***************************************************************************)
(* KafkaClient.consume (connectors/kafka_client.py): one consumer of one   *)
(* partition.  Offsets are 1..MaxOffset; the committed offset of the group *)
(* and the position of the consumer are the offset of the next message.    *)
(* consumer.commit() without arguments commits the consumer's position.    *)
(***************************************************************************)
\* the messages in the partition
MaxOffset == 3

\* how often consume is called again after its loop has ended
MaxRestarts == 1

\* what the iteration of the consumer does: yields a message, yields a
\* message whose headers do not decode, or raises (cancellation included)
DeliverOutcomes == {"message", "bad_headers", "raises"}

\* what the handler does: the last one is not an Exception
HandlerOutcomes == {"return", "Exception", "CancelledError"}

\* handled and commits are observations: the handler calls and the commit
\* calls made so far, each with the offset of the message it was for
KcIdle == [pc |-> "idle", running |-> FALSE, position |-> 1, committed |-> 1,
           msg |-> 0, handled |-> <<>>, commits |-> <<>>, restarts |-> 0]

\* consume is called: the consumer is created with enable_auto_commit=False
\* and started (lines 128-137); it starts at the group's committed offset
Consume(start_ok) ==
  /\ \/ kc.pc = "idle"
     \/ kc.pc = "stopped" /\ kc.restarts < MaxRestarts
  /\ kc' = [kc EXCEPT !.pc = IF start_ok THEN "polling" ELSE "stopped",
                      !.running = start_ok,
                      !.position = kc.committed,
                      !.msg = 0,
                      !.restarts = IF kc.pc = "stopped" THEN @ + 1 ELSE @]
  /\ UNCHANGED <<gen, emb, cache, ld, fp, rb, av, dl, ont>>

\* the loop is left: the finally clause stops the consumer (lines 155-156)
KcExit(k) == [k EXCEPT !.pc = "stopped", !.running = FALSE]

\* one step of 'async for msg in consumer' and the decoding of the headers
\* (lines 139-143)
Deliver(outcome) ==
  /\ kc.pc = "polling"
  /\ outcome # "raises" => kc.position <= MaxOffset
  /\ LET fetched == [kc EXCEPT !.msg = kc.position, !.position = @ + 1]
     IN  kc' = IF outcome = "raises" THEN KcExit(kc)
               ELSE IF outcome = "bad_headers" THEN KcExit(fetched)
               ELSE [fetched EXCEPT !.pc = "handling"]
  /\ UNCHANGED <<gen, emb, cache, ld, fp, rb, av, dl, ont>>

\* a loop body that commits whatever the handler did
AfterHandlerAlwaysCommits(outcome) ==
  IF outcome = "CancelledError" THEN "stopped" ELSE "committing"

\* where the loop body goes after 'await handler(payload, headers)': on to
\* the commit, into 'except Exception', or out of the loop (lines 144-147)
AfterHandler(outcome) ==
  IF outcome = "return" THEN "committing"
  ELSE IF outcome = "Exception" THEN "polling"
  ELSE "stopped"

\* await handler(payload, headers) (line 145)
Handle(outcome) ==
  /\ kc.pc = "handling"
  /\ LET called == [kc EXCEPT !.handled =
                      Append(@, [offset |-> kc.msg, outcome |-> outcome])]
         next == AfterHandler(outcome)
     IN  kc' = IF next = "stopped" THEN KcExit(called)
               ELSE [called EXCEPT !.pc = next]
  /\ UNCHANGED <<gen, emb, cache, ld, fp, rb, av, dl, ont>>

\* await consumer.commit() (line 146): commits the position; a failure of
\* the commit is caught by the same 'except Exception'
Commit(commit_ok) ==
  /\ kc.pc = "committing"
  /\ kc' = [kc EXCEPT !.pc = "polling",
                      !.committed = IF commit_ok THEN kc.position ELSE @,
                      !.commits = Append(@, [offset |-> kc.msg,
                                             ok |-> commit_ok])]
  /\ UNCHANGED <<gen, emb, cache, ld, fp, rb, av, dl, ont>>

(***************************************************************************)
(* delete_blob (services/authoring_api/app/services/delete_service.py).    *)
(* Paths and tenant ids are strings, written as sequences of characters.   *)
(***************************************************************************)
\* the tenant ids delete_blob is called with: "1" and "12"
DlTenants == { <<"1">>, <<"1", "2">> }

\* the blob paths delete_blob is called with
DlPaths ==
  { <<"t", "e", "n", "a", "n", "t", "/", "1", "/", "a">>,
    <<"t", "e", "n", "a", "n", "t", "/", "2", "/", "a">>,
    <<"t", "e", "n", "a", "n", "t", "/", "1", "2", "/", "a">>,
    <<"t", "e", "n", "a", "n", "t", "/", "1">>,
    <<"t", "e", "n", "a", "n", "t", "/", "1", "/">>,
    <<"x", "/", "t", "e", "n", "a", "n", "t", "/", "1", "/", "a">>,
    <<"T", "e", "n", "a", "n", "t", "/", "1", "/", "a">>,
    <<>> }

\* the blobs that can be in the container when delete_blob is called
DlBlobs == { <<"t", "e", "n", "a", "n", "t", "/", "1", "/", "a">>,
             <<"t", "e", "n", "a", "n", "t", "/", "2", "/", "a">>,
             <<"t", "e", "n", "a", "n", "t", "/", "1", "2", "/", "a">> }

\* requests is an observation: the calls made on the blob client; store0 is
\* the container as it was when delete_blob was called
DlIdle == [pc |-> "idle", blob_path |-> <<>>, tenant_id |-> <<>>,
           store |-> {}, store0 |-> {}, requests |-> <<>>,
           result |-> None, error |-> None]

\* a check that lets every path through
StartsWithAnything(str, prefix) == TRUE

\* str.startswith(prefix)
StartsWith(str, prefix) ==
  /\ Len(str) >= Len(prefix)
  /\ SubSeq(str, 1, Len(prefix)) = prefix

\* expected_prefix = f"tenant/{tenant_id}/" (line 46)
ExpectedPrefix(tenant_id) ==
  <<"t", "e", "n", "a", "n", "t", "/">> \o tenant_id \o <<"/">>

\* delete_blob is called: the prefix check (lines 45-57)
DeleteBlob(blob_path, tenant_id, store) ==
  /\ dl.pc = "idle"
  /\ LET called == [dl EXCEPT !.blob_path = blob_path, !.tenant_id = tenant_id,
                              !.store = store, !.store0 = store]
     IN  dl' = IF ~StartsWith(blob_path, ExpectedPrefix(tenant_id))
               THEN [called EXCEPT !.pc = "done", !.result = Some(FALSE)]
               ELSE [called EXCEPT !.pc = "exists"]
  /\ UNCHANGED <<gen, emb, cache, ld, fp, rb, av, kc, ont>>

\* await blob_client.exists() (lines 73-89); a failure is re-raised by the
\* except clause (lines 136-168)
BlobExists(storage_ok) ==
  /\ dl.pc = "exists"
  /\ LET asked == [dl EXCEPT !.requests =
                     Append(@, [op |-> "exists", path |-> dl.blob_path])]
     IN  dl' = IF ~storage_ok
               THEN [asked EXCEPT !.pc = "done", !.error = Some("Exception")]
               ELSE IF dl.blob_path \notin dl.store
               THEN [asked EXCEPT !.pc = "done", !.result = Some(FALSE)]
               ELSE [asked EXCEPT !.pc = "delete"]
  /\ UNCHANGED <<gen, emb, cache, ld, fp, rb, av, kc, ont>>

\* await blob_client.delete_blob() and the return (lines 91-134); the audit
\* write after it swallows its own failures
BlobDelete(storage_ok) ==
  /\ dl.pc = "delete"
  /\ LET asked == [dl EXCEPT !.requests =
                     Append(@, [op |-> "delete", path |-> dl.blob_path])]
     IN  dl' = IF ~storage_ok
               THEN [asked EXCEPT !.pc = "done", !.error = Some("Exception")]
               ELSE [asked EXCEPT !.pc = "done", !.result = Some(TRUE),
                                  !.store = @ \ {dl.blob_path}]
  /\ UNCHANGED <<gen, emb, cache, ld, fp, rb, av, kc, ont>>

(***************************************************************************)
(* classify_ontology (common/sensei_common/utils/ontology.py).  Scores are *)
(* in hundredths.  The module keeps one LLMRouter, built on first use from *)
(* the LLM routes file.                                                    *)
(***************************************************************************)
\* the default of llm_fallback.min_rule_score, 0.6
min_rule_score == 60

\* the scores _rule_based_classify gives the texts classified
RuleScores == {0, 50, 60, 100}

\* the label _rule_based_classify returns for a text of that score
RuleBasedClassify(score) ==
  [doc_kind |-> "how-to", area |-> "general", score |-> score]

\* what settings.LLM_YAML holds: no file, or one of the documents
OntRouterFiles == {None} \cup { Some(data) : data \in YamlDocuments }

\* what router.generate does: it raises when every provider failed, or it
\* returns a text: a JSON object with the three fields, an empty JSON
\* object, an object whose score is no number, a JSON array, or no JSON
OntGenerateOutcomes ==
  {"RuntimeError", "object", "empty_object", "bad_score", "array", "not_json"}

\* router is the module's _LLM_ROUTER; llm_calls and generated are
\* observations: the calls of router.generate made so far and what the last
\* one did
OntIdle == [pc |-> "idle", enabled |-> FALSE, base |-> None, router |-> None,
            llm_calls |-> 0, generated |-> None, result |-> None,
            error |-> None]

\* classify_ontology up to the call of _llm_enrich_ontology (lines 170-180)
\* and the enabled test of the latter (lines 115-117)
ClassifyOntology(enabled, score) ==
  /\ ont.pc = "idle"
  /\ LET base == RuleBasedClassify(score)
         called == [ont EXCEPT !.enabled = enabled, !.base = Some(base)]
     IN  ont' = IF ~enabled \/ base.score >= min_rule_score
                THEN [called EXCEPT !.pc = "done", !.result = Some(base)]
                ELSE [called EXCEPT !.pc = "router"]
  /\ UNCHANGED <<gen, emb, cache, ld, fp, rb, av, kc, dl>>

\* router = _get_llm_router() (lines 74-78, 124), which stands before the
\* try block of _llm_enrich_ontology: what from_yaml_file raises leaves
\* _llm_enrich_ontology as it is, and classify_ontology catches LLMError only
GetLLMRouter(file) ==
  /\ ont.pc = "router"
  /\ LET out == IF file = None THEN [ok |-> FALSE, exc |-> "FileNotFoundError"]
                ELSE LLMRouter_from_yaml_file(file[1])
     IN  ont' = IF out.ok
                THEN [ont EXCEPT !.pc = "generate", !.router = Some(out.router)]
                ELSE [ont EXCEPT !.pc = "done", !.error = Some(out.exc)]
  /\ UNCHANGED <<gen, emb, cache, ld, fp, rb, av, kc, dl>>

\* the try block of _llm_enrich_ontology applied to what generate did
\* (lines 151-163): the enriched label, or LLMError
Enrich(outcome, base) ==
  CASE outcome = "object" ->
         [ok |-> TRUE,
          label |-> [doc_kind |-> "troubleshooting", area |-> "network",
                     score |-> 90]]
    [] outcome = "empty_object" -> [ok |-> TRUE, label |-> base]
    [] outcome = "bad_score" ->
         [ok |-> TRUE,
          label |-> [doc_kind |-> "troubleshooting", area |-> "network",
                     score |-> base.score]]
    [] OTHER -> [ok |-> FALSE, exc |-> "LLMError"]

\* router.generate, the parsing of its answer, and the except clause of
\* classify_ontology (lines 151-163, 179-183)
OntGenerate(outcome) ==
  /\ ont.pc = "generate"
  /\ LET out == Enrich(outcome, ont.base[1])
     IN  ont' = [ont EXCEPT !.pc = "done",
                            !.llm_calls = @ + 1,
                            !.generated = Some(outcome),
                            !.result = IF out.ok THEN Some(out.label)
                                       ELSE ont.base]
  /\ UNCHANGED <<gen, emb, cache, ld, fp, rb, av, kc, dl>>

\* the calls each caller issues: c1 a single text on any use case or the two
\* texts together on an unrouted use case; c2 (running concurrently with c1)
\* the text "c" on the primary-fallback route
EmbInputs(c) ==
  IF c = "c1"
  THEN (SingleTexts \X EmbUseCases) \cup ((TextLists \ SingleTexts) \X {"nonexistent.case"})
  ELSE { << <<"c">> >> } \X {"vendor.embedding"}

NextEmbed ==
  \/ \E c \in EmbCallers : \E in \in EmbInputs(c) : Embed(c, in[1], in[2])
  \/ \E c \in EmbCallers, f \in BOOLEAN : CacheGet(c, f)
  \/ \E c \in EmbCallers, r \in EmbResponses : EmbHttpRequest(c, r)
  \/ \E c \in EmbCallers, f \in BOOLEAN : CacheSet(c, f)
  \/ \E c \in EmbCallers : EmbedContinue(c)
  \/ \E k \in CacheKeys : Expire(k)

NextLLM ==
  \/ \E u \in LLMUseCases : Generate(u)
  \/ CallProvider
  \/ \E r \in LLMResponses : HttpAttempt(r)

NextLoad ==
  \/ \E kind \in RouterKinds, data \in YamlDocuments : FromYamlFile(kind, data)
  \/ \E u \in LoadUseCases : ResolveRoute(u)
  \/ BuildProviders

NextFingerprint ==
  \E text \in ShortTexts, model \in Models : FingerprintCall(text, model)

NextAutosave ==
  \/ \E row \in DocRows : AuthoringDocs(row)
  \/ \E c \in AvCallers, content \in Contents, db_ok \in BOOLEAN :
       AutosaveDraft(c, content, db_ok)
  \/ \E c \in AvCallers, blob_ok \in BOOLEAN : FetchContent(c, blob_ok)
  \/ \E c \in AvCallers, blob_ok \in BOOLEAN : SaveContent(c, blob_ok)
  \/ \E c \in AvCallers, db_ok \in BOOLEAN : UpdateDraft(c, db_ok)

NextKafka ==
  \/ \E start_ok \in BOOLEAN : Consume(start_ok)
  \/ \E outcome \in DeliverOutcomes : Deliver(outcome)
  \/ \E outcome \in HandlerOutcomes : Handle(outcome)
  \/ \E commit_ok \in BOOLEAN : Commit(commit_ok)

NextDelete ==
  \/ \E blob_path \in DlPaths, tenant_id \in DlTenants, store \in SUBSET DlBlobs :
       DeleteBlob(blob_path, tenant_id, store)
  \/ \E storage_ok \in BOOLEAN : BlobExists(storage_ok)
  \/ \E storage_ok \in BOOLEAN : BlobDelete(storage_ok)

NextOntology ==
  \/ \E enabled \in BOOLEAN, score \in RuleScores : ClassifyOntology(enabled, score)
  \/ \E file \in OntRouterFiles : GetLLMRouter(file)
  \/ \E outcome \in OntGenerateOutcomes : OntGenerate(outcome)

NextRetry ==
  \/ \E n \in 0..MaxRetries : RetryCall(n)
  \/ \E outcome \in RbOutcomes : Invoke(outcome)
  \/ \E tenths \in RandomTenths : Sleep(tenths)

Init ==
  /\ gen = GenIdle
  /\ emb = [c \in EmbCallers |-> EmbIdle]
  /\ cache = [k \in CacheKeys |-> None]
  /\ ld = LdIdle
  /\ fp = FpIdle
  /\ rb = RbIdle
  /\ av = AvIdle
  /\ kc = KcIdle
  /\ dl = DlIdle
  /\ ont = OntIdle

SpecLLM == Init /\ [][NextLLM]_vars

SpecEmbed == Init /\ [][NextEmbed]_vars

SpecLoad == Init /\ [][NextLoad]_vars

SpecFingerprint == Init /\ [][NextFingerprint]_vars

SpecRetry == Init /\ [][NextRetry]_vars

SpecAutosave == Init /\ [][NextAutosave]_vars

SpecKafka == Init /\ [][NextKafka]_vars

SpecDelete == Init /\ [][NextDelete]_vars

SpecOntology == Init /\ [][NextOntology]_vars

\* one client that issues generate calls and, as caller c2, embed calls
NextClient ==
  \/ \E u \in LLMUseCases : Generate(u)
  \/ CallProvider
  \/ \E r \in LLMResponses : HttpAttempt(r)
  \/ \E in \in EmbInputs("c2") : Embed("c2", in[1], in[2])
  \/ \E f \in BOOLEAN : CacheGet("c2", f)
  \/ \E r \in EmbResponses : EmbHttpRequest("c2", r)
  \/ \E f \in BOOLEAN : CacheSet("c2", f)
  \/ EmbedContinue("c2")

\* every HTTP request ends, by a response or by the provider's timeout, and
\* the event loop resumes the coroutine that awaits it
SpecClient ==
  /\ Init /\ [][NextClient]_vars
  /\ WF_vars(CallProvider)
  /\ WF_vars(\E r \in LLMResponses : HttpAttempt(r))

Next == NextLLM \/ NextEmbed \/ NextLoad \/ NextFingerprint \/ NextRetry
  \/ NextAutosave \/ NextKafka \/ NextDelete \/ NextOntology

Spec == Init /\ [][Next]_vars

(***************************************************************************)
(* Properties.                                                             *)
(***************************************************************************)
\* position of a provider name in a provider list
PosIn(seq, x) == CHOOSE i \in 1..Len(seq) : seq[i] = x

\* the request ended in an exception (not in a text)
GenFailed(rq) == ~AttemptOutcome(llm_providers[rq.provider], rq.response).ok

GenRequestsTo(name) == {j \in 1..Len(gen.requests) : gen.requests[j].provider = name}

\* positions of an embed call that is inside _embed_single or just left it
InSingle == {"cache_get", "provider", "cache_set", "single_done"}

\* generate on a primary-fallback route contacts the providers in the listed
\* order, each only after the ones before it failed, none after a success,
\* and returns the text of the first success
GenFallbackOrder ==
  gen.strategy = "primary-fallback" =>
    LET rq == gen.requests
    IN /\ \A j \in 1..Len(rq), k \in 1..Len(rq) :
            j < k => PosIn(gen.providers, rq[j].provider) <= PosIn(gen.providers, rq[k].provider)
       /\ \A k \in 1..Len(rq) : \A i \in 1..(PosIn(gen.providers, rq[k].provider) - 1) :
            \E g \in 1..Len(gen.gave_up) : gen.gave_up[g] = gen.providers[i]
       /\ \A j \in 1..(Len(rq) - 1) : GenFailed(rq[j])
       /\ gen.result # None =>
            /\ rq # <<>>
            /\ ~GenFailed(rq[Len(rq)])
            /\ gen.result[1].provider = rq[Len(rq)].provider

\* the same for one text of embed: request k goes to provider k, none follows
\* a provider that returned a valid vector, and that vector is what is returned
EmbFallbackOrder(c) ==
  LET e == emb[c]
      rq == e.requests
  IN (e.strategy = "primary-fallback" /\ e.pc \in InSingle) =>
       /\ \A k \in 1..Len(rq) : rq[k].provider = e.providers[k]
       /\ \A j \in 1..(Len(rq) - 1) : rq[j].outcome # "valid"
       /\ (e.pc = "single_done" /\ rq # <<>> /\ rq[Len(rq)].outcome = "valid") =>
            /\ e.error = None
            /\ e.served_by = rq[Len(rq)].provider

\* C1: on a primary-fallback route generate and embed attempt the providers
\* strictly in the listed order: provider i+1 is contacted only after
\* provider i failed, no provider is contacted after one has succeeded, and
\* the call returns the result of the first provider that succeeds.
C1_FallbackOrder ==
  /\ GenFallbackOrder
  /\ \A c \in EmbCallers : EmbFallbackOrder(c)

\* C2: on a primary-fallback route [P1, P2] where every attempt against P1
\* fails with a transient error and P2 succeeds, generate returns P2's result
\* after exactly P1.retries + 1 requests to P1.
C2_RetriesPlusOne ==
  LET P1 == gen.providers[1]
      P2 == gen.providers[2]
  IN ( /\ gen.pc = "done"
       /\ gen.strategy = "primary-fallback"
       /\ Len(gen.providers) = 2
       /\ \A j \in GenRequestsTo(P1) : gen.requests[j].response \in TransientResponses
       /\ \A j \in GenRequestsTo(P2) : ~GenFailed(gen.requests[j]) )
     => /\ gen.result # None
        /\ gen.result[1].provider = P2
        /\ Cardinality(GenRequestsTo(P1)) = llm_providers[P1].retries + 1

\* C3: on a weighted route (with or without weights) generate contacts exactly
\* one of the route's providers; when that provider fails, generate fails with
\* that provider's error and no other provider is contacted.
C3_WeightedSingleProvider ==
  gen.strategy = "weighted" =>
    LET contacted == {gen.requests[j].provider : j \in 1..Len(gen.requests)}
    IN /\ Cardinality(contacted) <= 1
       /\ gen.pc = "done" =>
            /\ Cardinality(contacted) = 1
            /\ gen.error # None => gen.error[1].provider \in contacted

\* C4: on a weighted route embed contacts at most one provider per text; when
\* that provider raises or returns a vector of the wrong dimension, no other
\* provider is contacted and the call fails with that provider's error.
C4_WeightedEmbedSingleProvider ==
  \A c \in EmbCallers :
    LET e == emb[c]
        rq == e.requests
    IN (e.strategy = "weighted" /\ e.pc \in InSingle) =>
         /\ Len(rq) <= 1
         /\ (e.pc = "single_done" /\ Len(rq) = 1 /\ rq[1].outcome # "valid") =>
              e.error # None
         /\ (e.pc = "single_done" /\ Len(rq) = 1 /\ rq[1].outcome = "raised") =>
              e.error[1].provider = rq[1].provider

NormalForm(t) == IF t = <<" ", "a", "\t", "\n", "b">> THEN <<"a", " ", "b">> ELSE t

\* the key of (model of the first provider of the route, normalized text)
PrimaryKey(e) ==
  LET first == resolve_route(e.use_case).providers[1]
  IN [prefix |-> "emb:",
      fp |-> [sha256 |-> emb_providers[first].model \o <<":", ":">>
                           \o NormalForm(e.texts[e.i])]]

\* the key _embed_single reads with is the primary key
ReadsPrimaryKey ==
  \A c \in EmbCallers :
    emb[c].pc \in {"cache_get", "provider", "cache_set"} =>
      emb[c].cache_key = Some(PrimaryKey(emb[c]))

\* a step in which caller c completes a cache write
WriteStep(c) ==
  emb[c].pc = "cache_set" /\ emb'[c].pc = "single_done" /\ emb'[c].cache_write = "ok"

\* a step that writes changes the cache at the primary key only, to the
\* vector the call returns, and only such steps put a value into the cache
WritesPrimaryKey ==
  /\ \A c \in EmbCallers : WriteStep(c) =>
       /\ cache'[PrimaryKey(emb[c])] =
            Some(JsonDumps(PyList(emb'[c].results[emb[c].i])))
       /\ \A k \in CacheKeys : k # PrimaryKey(emb[c]) => cache'[k] = cache[k]
  /\ (\E k \in CacheKeys : cache'[k] # cache[k] /\ cache'[k] # None) =>
       \E c \in EmbCallers : WriteStep(c)

\* C6: every cache read and write of embed for a text uses the one key made
\* of the model of the route's first provider and the normalized text; a
\* vector a fallback provider produced is stored under that key too.
C6_PrimaryModelKey == []ReadsPrimaryKey /\ [][WritesPrimaryKey]_vars

\* a vector served by a fallback provider sits under the primary key
C6_Witness ==
  \E c \in EmbCallers :
    LET e == emb[c]
    IN /\ e.pc = "single_done" /\ e.idx > 1 /\ e.cache_write = "ok"
       /\ e.served_by = e.providers[e.idx]
       /\ emb_providers[e.served_by].model # emb_providers[e.providers[1]].model
       /\ cache[PrimaryKey(e)] = Some(JsonDumps(PyList(e.results[e.i])))

\* a vector returned from a provider, or about to be cached, has the
\* embedding_dim of the provider that produced it
ReturnedDimOk ==
  \A c \in EmbCallers :
    LET e == emb[c]
    IN /\ (e.pc = "single_done" /\ e.served_by \in EmbProviderNames) =>
            Len(e.results[e.i]) = emb_providers[e.served_by].embedding_dim
       /\ e.pc = "cache_set" =>
            e.vector[1].len = emb_providers[e.providers[e.idx]].embedding_dim

\* on a primary-fallback route a provider whose vector had the wrong length
\* is followed by the next provider of the list, and when it was the last
\* one the call has failed without returning a vector
MismatchFallsBack ==
  \A c \in EmbCallers :
    LET e == emb[c]
        rq == e.requests
    IN (e.strategy = "primary-fallback" /\ e.pc \in InSingle) =>
         \A j \in 1..Len(rq) : rq[j].outcome = "mismatch" =>
           IF j < Len(e.providers)
           THEN \/ Len(rq) > j /\ rq[j + 1].provider = e.providers[j + 1]
                \/ Len(rq) = j /\ e.pc = "provider" /\ e.idx = j + 1
           ELSE /\ e.pc = "single_done" /\ e.error # None
                /\ Len(e.results) = e.i - 1

\* a step that writes stores a vector of the producing provider's dimension
WrittenDimOk ==
  \A c \in EmbCallers : WriteStep(c) =>
    \A k \in CacheKeys : (cache'[k] # cache[k] /\ cache'[k] # None) =>
      cache'[k][1].len = emb_providers[emb[c].providers[emb[c].idx]].embedding_dim

\* C7: embed never returns a provider-produced vector, and never caches a
\* vector, whose length differs from the embedding_dim of the provider that
\* produced it; on a primary-fallback route a mismatch makes the call go on
\* to the next candidate, and with none left the call fails with an error.
C7_DimensionValidated ==
  [](ReturnedDimOk /\ MismatchFallsBack) /\ [][WrittenDimOk]_vars

\* the first provider's vector had the wrong length and the second served
C7_Witness ==
  \E c \in EmbCallers :
    LET e == emb[c]
    IN /\ e.strategy = "primary-fallback" /\ e.pc = "single_done"
       /\ Len(e.requests) = 2
       /\ e.requests[1].outcome = "mismatch" /\ e.requests[2].outcome = "valid"
       /\ e.served_by = e.providers[2] /\ e.error = None

\* C8: when the cache get fails during embed, the failure is a cache miss:
\* embed goes on to the providers, and the cache error is not raised.
C8_GetFailureIsMiss ==
  \A c \in EmbCallers :
    LET e == emb[c]
    IN (e.pc = "single_done" /\ e.cache_read = "failed") =>
         /\ e.requests # <<>>
         /\ e.error # None => e.error[1].type # "RedisError"

\* C9: when the cache set fails after a provider returned a valid vector,
\* embed returns that vector: no further provider is contacted and the cache
\* error is not raised.
C9_SetFailureSwallowed ==
  \A c \in EmbCallers :
    LET e == emb[c]
        rq == e.requests
    IN (e.pc \in InSingle /\ e.cache_write = "failed") =>
         /\ e.pc = "single_done"
         /\ e.error = None
         /\ rq[Len(rq)].outcome = "valid"
         /\ e.served_by = rq[Len(rq)].provider

\* a request that failed with a 4xx status or on a body of the wrong shape
NonTransientFailure(rq) ==
  GenFailed(rq) /\ rq.response \in {"http4xx", "malformed"}

\* C10: a non-transient failure of a provider attempt is not retried on that
\* provider: the next request, if any, goes to another provider, and on a
\* primary-fallback route to the next candidate of the list.
C10_NonTransientNotRetried ==
  LET rq == gen.requests
  IN \A j \in 1..(Len(rq) - 1) : NonTransientFailure(rq[j]) =>
       /\ rq[j + 1].provider # rq[j].provider
       /\ gen.mode = "fallback" =>
            PosIn(gen.providers, rq[j + 1].provider) > PosIn(gen.providers, rq[j].provider)

\* every candidate of the call in flight for one text was contacted and none
\* returned a valid vector
AllCandidatesFailed(e) ==
  /\ e.pc = "single_done" /\ e.error # None
  /\ Len(e.requests) = Len(e.providers)
  /\ \A j \in 1..Len(e.requests) : e.requests[j].outcome # "valid"

\* C11: when every candidate of a call has failed, the error that generate or
\* embed raises carries the failure of the last provider attempted; for embed
\* this includes a last provider that failed by dimension mismatch after an
\* earlier provider raised.
C11_LastProviderError ==
  /\ (gen.pc = "done" /\ gen.mode = "fallback" /\ gen.error # None
        /\ gen.providers # <<>>) =>
       gen.error[1].provider = gen.providers[Len(gen.providers)]
  /\ \A c \in EmbCallers :
       AllCandidatesFailed(emb[c]) =>
         emb[c].error[1].provider = emb[c].providers[Len(emb[c].providers)]

\* a step in which _embed_single returns a vector to embed for caller c
ReturnStep(c) ==
  /\ emb[c].pc \in {"cache_get", "cache_set"}
  /\ emb'[c].pc = "single_done" /\ emb'[c].error = None

\* the vector that step obtains for texts[i]: the entry under the key of
\* texts[i] on a cache hit, the vector the provider returned otherwise
Obtained(c) ==
  IF emb[c].pc = "cache_get"
  THEN JsonLoads(cache[PrimaryKey(emb[c])][1]).items
  ELSE emb[c].vector[1].items

\* a call that returned has one vector per text, and a call in flight has one
\* vector per text already done
ResultsLength ==
  \A c \in EmbCallers :
    LET e == emb[c]
    IN /\ (e.pc = "done" /\ e.error = None) => Len(e.results) = Len(e.texts)
       /\ e.pc \in InSingle =>
            Len(e.results) = IF e.pc = "single_done" /\ e.error = None
                             THEN e.i ELSE e.i - 1

\* the vector obtained for texts[i] goes to position i of the results, and
\* no other step of the call changes the results or the texts
ResultsStep ==
  \A c \in EmbCallers :
    IF ReturnStep(c)
    THEN /\ emb'[c].results = Append(emb[c].results, Obtained(c))
         /\ emb'[c].results[emb[c].i] = Obtained(c)
         /\ emb'[c].texts = emb[c].texts /\ emb'[c].i = emb[c].i
    ELSE emb[c].pc \in InSingle =>
           emb'[c].results = emb[c].results /\ emb'[c].texts = emb[c].texts

\* C12: a successful embed(texts, use_case) returns exactly len(texts)
\* vectors, and the vector at index i is the one obtained for texts[i].
C12_ResultsAligned == []ResultsLength /\ [][ResultsStep]_vars

\* a call for two texts returned two different vectors
C12_Witness ==
  \E c \in EmbCallers :
    LET e == emb[c]
    IN /\ e.pc = "done" /\ e.error = None
       /\ Len(e.texts) = 2 /\ Len(e.results) = 2
       /\ e.results[1] # e.results[2]

\* the route the document defines under `name`, as the router holds it
DocumentRoute(name) ==
  LET rcfg == ld.data[1].routes[name]
  IN [name |-> name, strategy |-> rcfg.strategy, providers |-> rcfg.providers,
      weights |-> IF "weights" \in DOMAIN rcfg THEN Some(rcfg.weights) ELSE None]

\* the resolved route is the explicit route of a routed use case and the
\* default route of every other use case
ResolvedRoute ==
  ld.pc = "resolved" =>
    /\ ld.route # None
    /\ ld.route[1] =
         IF ld.use_case \in DOMAIN ld.data[1].routes \ {"default"}
         THEN DocumentRoute(ld.use_case)
         ELSE DocumentRoute("default")

\* resolving a route changes nothing of the router
ResolveKeepsRouter ==
  ld'.pc = "resolved" => (ld'.router = ld.router /\ ld'.data = ld.data)

\* C13: route resolution never fails and has no side effect: a use case with
\* an explicit route resolves to that route, every other use case resolves to
\* the default route, and the route table is left unchanged.
C13_ResolveTotal == []ResolvedRoute /\ [][ResolveKeepsRouter]_vars

\* a routed and an unrouted use case were resolved on a router with both
\* kinds of route: this one is the unrouted use case falling to the default
C13_Witness ==
  /\ ld.pc = "resolved" /\ ld.use_case = "other"
  /\ "r1" \in DOMAIN ld.router[1].routes
  /\ ld.route[1].name = "default"
  /\ ld.route[1] # ld.router[1].routes["r1"]

\* a step of generate leaves the cache as it was
GenerateKeepsCache == (gen' # gen) => (cache' = cache)

\* a generate call that ended resolved its route and sent at least one request
GenerateDispatched ==
  gen.pc = "done" =>
    /\ gen.strategy = LLM_resolve_route(gen.use_case).strategy
    /\ gen.providers = LLM_resolve_route(gen.use_case).providers
    /\ gen.requests # <<>>

\* C14: generate never reads or writes the cache: across any sequence of
\* generate calls the cache state is unchanged, and every generate call
\* resolves its route and contacts at least one provider, also when the same
\* prompt was generated before.
C14_GenerateBypassesCache == []GenerateDispatched /\ [][GenerateKeepsCache]_vars

\* caller c ended one text on a cold cache with a vector of the first
\* provider that returned a valid one, and wrote it
ColdSuccess(c) ==
  LET e == emb[c]
      rq == e.requests
  IN /\ e.pc = "single_done" /\ e.error = None
     /\ e.cache_read = "miss" /\ e.cache_write = "ok"
     /\ \A j \in 1..(Len(rq) - 1) : rq[j].outcome # "valid"

\* two callers ended the same (model, text) on a cold cache, and the entry
\* they wrote is still there
ConcurrentPair(c, d) ==
  /\ c # d /\ ColdSuccess(c) /\ ColdSuccess(d)
  /\ emb[c].texts[emb[c].i] = emb[d].texts[emb[d].i]
  /\ get_provider(emb[c].providers[1]).model = get_provider(emb[d].providers[1]).model
  /\ cache[emb[c].cache_key[1]] # None

\* the vector the cache holds under `key`
Entry(key) == JsonLoads(cache[key][1]).items

\* C15: two embed calls for the same (model, text) pair running concurrently
\* on a cold cache both write the same value under the same cache key, so the
\* final cache entry equals the vector returned to each caller whatever the
\* interleaving of their get, provider and set steps.
C15_ConcurrentSameValue ==
  \A c, d \in EmbCallers : ConcurrentPair(c, d) =>
    /\ emb[c].cache_key = emb[d].cache_key
    /\ Entry(emb[c].cache_key[1]) = emb[c].results[emb[c].i]
    /\ Entry(emb[c].cache_key[1]) = emb[d].results[emb[d].i]

\* the two callers use one key, and the entry is the vector of one of them
PairSharesKey ==
  \A c, d \in EmbCallers : ConcurrentPair(c, d) =>
    /\ emb[c].cache_key = emb[d].cache_key
    /\ Entry(emb[c].cache_key[1]) \in
         {emb[c].results[emb[c].i], emb[d].results[emb[d].i]}

\* a write puts the whole vector the writer returns under the writer's key
WriteIsOwnVector ==
  \A c \in EmbCallers : WriteStep(c) =>
    /\ cache'[emb[c].cache_key[1]] # None
    /\ JsonLoads(cache'[emb[c].cache_key[1]][1]).type = "list"
    /\ JsonLoads(cache'[emb[c].cache_key[1]][1]).items = emb'[c].results[emb[c].i]

\* C15 as the code has it: the two calls use the same cache key, each writes
\* under it exactly the vector it returns, and the entry that remains is the
\* vector of the call that wrote last: the entry is whole and is the vector
\* returned to one of the two callers, and to both only when both were served
\* the same vector.
C15_LastWriterWins == []PairSharesKey /\ [][WriteIsOwnVector]_vars

\* both callers wrote under one key, one the primary's vector and the other
\* the vector of the fallback provider
C15_Witness ==
  \E c, d \in EmbCallers :
    /\ ConcurrentPair(c, d)
    /\ emb[c].results[emb[c].i] # emb[d].results[emb[d].i]
    /\ Entry(emb[c].cache_key[1]) = emb[d].results[emb[d].i]

\* the routes a loaded router holds: the explicit ones and the default
LoadedRoutes ==
  LET router == ld.router[1]
  IN {router.routes[n] : n \in DOMAIN router.routes} \cup {router.default_route}

\* C16: config load fails when a route names a provider that is not in the
\* provider catalog; hence after a successful load every provider name of
\* every route resolves, and no generate or embed call can fail on a provider
\* lookup.
C16_UnknownProviderRejected ==
  /\ ld.router # None =>
       \A route \in LoadedRoutes : \A j \in 1..Len(route.providers) :
         route.providers[j] \in DOMAIN ld.router[1].providers
  /\ ld.lookup # "KeyError"

\* C17: config load fails for a weighted route whose weights list has a
\* length different from its providers list or holds a weight that is not
\* greater than 0 (providers [A, B] with weights [1, 0], for example).
C17_WeightsValidated ==
  ld.router # None =>
    \A route \in LoadedRoutes :
      (route.strategy = "weighted" /\ route.weights # None) =>
        /\ Len(route.weights[1]) = Len(route.providers)
        /\ \A j \in 1..Len(route.weights[1]) : route.weights[1][j] > 0

\* a document without a default route is never loaded
NoDefaultFails ==
  (ld.data # None /\ "default" \notin DOMAIN ld.data[1].routes) =>
    /\ ld.pc = "failed" /\ ld.router = None
    /\ ld.error = Some("ValueError")

\* a loaded router has the document's default route as its default route and
\* the other routes of the document, and only those, as explicit routes
DefaultKeptApart ==
  ld.router # None =>
    /\ "default" \in DOMAIN ld.data[1].routes
    /\ ld.router[1].default_route = DocumentRoute("default")
    /\ "default" \notin DOMAIN ld.router[1].routes
    /\ DOMAIN ld.router[1].routes = DOMAIN ld.data[1].routes \ {"default"}

\* C18: config load fails when the document defines no route named
\* `default`; every router that load returns has a default route, and the
\* default route is not also registered as an explicit route.
C18_DefaultRequired == NoDefaultFails /\ DefaultKeptApart

\* a document with a route but no default route was refused with ValueError
C18_Witness ==
  /\ ld.pc = "failed" /\ ld.error = Some("ValueError") /\ ld.router = None
  /\ DOMAIN ld.data[1].routes = {"r1"}

\* the whitespace characters of the texts
Whitespace == {" ", "\t", "\n"}

\* t is s with one whitespace character put next to another one or at an end
WhitespaceInserted(s, t) ==
  /\ Len(t) = Len(s) + 1
  /\ \E i \in 1..Len(t) :
       /\ t[i] \in Whitespace
       /\ \/ i = 1 \/ i = Len(t)
          \/ t[i - 1] \in Whitespace \/ t[i + 1] \in Whitespace
       /\ s = SubSeq(t, 1, i - 1) \o SubSeq(t, i + 1, Len(t))

\* t is s with one whitespace character changed into another one
WhitespaceReplaced(s, t) ==
  /\ Len(t) = Len(s)
  /\ \E i \in 1..Len(t) :
       /\ s[i] \in Whitespace /\ t[i] \in Whitespace
       /\ \A j \in 1..Len(t) : j # i => s[j] = t[j]

\* s and t differ by one edit of the length or kind of a whitespace run, or
\* of the leading or trailing whitespace
WhitespaceEdit(s, t) ==
  WhitespaceInserted(s, t) \/ WhitespaceInserted(t, s) \/ WhitespaceReplaced(s, t)

\* normalizing a normalized text changes nothing
NormalizeIdempotent ==
  fp.pc = "called" => Normalize(fp.normalized) = fp.normalized

\* of two calls, one after the other: a whitespace edit of the text under the
\* same model keeps the fingerprint; a different normalized form under the
\* same model, and the same text under a different model, change what is hashed
FingerprintPair ==
  (fp.pc = "called" /\ fp'.pc = "called") =>
    /\ (fp'.model = fp.model /\ WhitespaceEdit(fp.text, fp'.text)) =>
         fp'.value = fp.value
    /\ (fp'.model = fp.model /\ fp'.normalized # fp.normalized) =>
         fp'.value # fp.value
    /\ (fp'.model # fp.model /\ fp'.text = fp.text) =>
         fp'.value # fp.value

C20_MalformedNeverSucceeds ==
  LET rq == gen.requests
  IN /\ (gen.result # None /\ rq # <<>>) => rq[Len(rq)].response # "malformed"
     /\ \A j \in 1..Len(rq) : rq[j].response = "malformed" =>
          /\ GenFailed(rq[j])
          /\ j < Len(rq) =>
               /\ rq[j + 1].provider # rq[j].provider
               /\ gen.mode = "fallback" =>
                    rq[j + 1].provider =
                      gen.providers[PosIn(gen.providers, rq[j].provider) + 1]

\* C21: between a transiently failed attempt number k and the next attempt
\* against the same provider the retry executor waits baseDelay * 2^(k-1):
\* no two consecutive attempts against one provider occur without a wait in
\* between, and the waits double from one retry to the next.
C21_BackoffBetweenAttempts ==
  LET rq == gen.requests
      Retry(j) == /\ rq[j + 1].provider = rq[j].provider
                  /\ rq[j].response \in TransientResponses
  IN \A j \in 1..(Len(rq) - 1) : Retry(j) =>
       /\ rq[j + 1].waited > 0
       /\ (j > 1 /\ Retry(j - 1)) => rq[j + 1].waited = 2 * rq[j].waited

\* within one text of a call: providers are attempted only after the cache
\* read missed, and a cache write is pending only for a list vector that the
\* provider just attempted returned and that has this provider's dimension
StepOrder ==
  \A c \in EmbCallers :
    LET e == emb[c]
        rq == e.requests
    IN e.pc \in InSingle =>
         /\ (e.pc \in {"provider", "cache_set"} \/ rq # <<>>) => e.cache_read = "miss"
         /\ e.pc = "cache_set" =>
              /\ rq # <<>> /\ rq[Len(rq)].outcome = "valid"
              /\ rq[Len(rq)].provider = e.providers[e.idx]
              /\ e.vector # None /\ e.vector[1].type = "list"
              /\ e.vector[1].len = emb_providers[e.providers[e.idx]].embedding_dim
         /\ (e.pc = "single_done" /\ e.cache_write = "ok") =>
              /\ rq # <<>> /\ rq[Len(rq)].outcome = "valid"
              /\ e.served_by = rq[Len(rq)].provider

\* a step that puts a value into the cache is the write of a caller whose
\* validated vector is pending; the value is that vector, and it is what the
\* call returns for its text
WriteAfterValidation ==
  \A k \in CacheKeys : (cache'[k] # cache[k] /\ cache'[k] # None) =>
    \E c \in EmbCallers :
      /\ emb[c].pc = "cache_set" /\ emb'[c].pc = "single_done"
      /\ emb[c].cache_key = Some(k)
      /\ JsonLoads(cache'[k][1]) = emb[c].vector[1]
      /\ emb'[c].error = None
      /\ emb'[c].results[emb[c].i] = emb[c].vector[1].items
      /\ emb'[c].texts = emb[c].texts /\ emb'[c].i = emb[c].i

\* C22: in embed the steps for one text occur in the order cache read,
\* provider attempt, normalization, dimension validation, cache write: a
\* cache write happens only after a provider attempt made in the same call
\* for that same text returned a vector that passed validation, and the value
\* written is exactly the vector the call returns for that text, also when
\* other embed calls run concurrently.
C22_StepOrder == []StepOrder /\ [][WriteAfterValidation]_vars

\* a caller wrote its vector while the other caller was between its own
\* cache read and cache write for the same key
C22_Witness ==
  \E c, d \in EmbCallers :
    /\ c # d
    /\ emb[c].pc = "single_done" /\ emb[c].cache_write = "ok"
    /\ emb[d].pc = "cache_set" /\ emb[d].cache_key = emb[c].cache_key
    /\ emb[d].vector[1].items # emb[c].results[emb[c].i]

\* the catalog and the route table of the router are those of the document
\* it was loaded from
RouterAsLoaded ==
  ld.router # None =>
    LET router == ld.router[1]
        doc    == ld.data[1]
    IN /\ DOMAIN router.providers = DOMAIN doc.providers
       /\ \A n \in DOMAIN router.providers :
            /\ router.providers[n].name = n
            /\ router.providers[n].provider_type = doc.providers[n].provider_type
            /\ router.providers[n].model = doc.providers[n].model
            /\ router.providers[n].retries =
                 IF "retries" \in DOMAIN doc.providers[n]
                 THEN doc.providers[n].retries ELSE 3
       /\ DOMAIN router.routes = DOMAIN doc.routes \ {"default"}
       /\ \A n \in DOMAIN router.routes : router.routes[n] = DocumentRoute(n)
       /\ router.default_route = DocumentRoute("default")

\* no step taken on a loaded router changes it
RouterFrozen == ld.router # None => ld'.router = ld.router

\* C23: after load, no generate, embed or route-resolution call adds, removes
\* or changes any provider record or route (provider lists, weights,
\* strategy, default route): the catalog and the route table are identical in
\* every reachable state.
C23_ConfigImmutable == []RouterAsLoaded /\ [][RouterFrozen]_vars

\* an unrouted use case was resolved and its providers looked up, and the
\* router still has its one explicit route
C23_Witness ==
  /\ ld.pc = "built" /\ ld.lookup = "ok" /\ ld.use_case = "other"
  /\ DOMAIN ld.router[1].routes = {"r1"}
  /\ ld.route[1] = ld.router[1].default_route

\* the exception classes of sensei_common.utils.exceptions: each carries a
\* code and a retriable flag
SenseiErrorKinds ==
  {"SenseiError", "APIError", "DBError", "KafkaError", "LLMError",
   "IndexingError", "SecurityError", "PipelineError", "ValidationError"}

\* C24: every error that generate or embed surfaces to its caller is one of
\* the typed error kinds and carries an identifying code and a retriable
\* flag; a raw transport, lookup or payload-access failure never reaches the
\* caller without them.
C24_TypedErrors ==
  /\ gen.error # None => gen.error[1].type \in SenseiErrorKinds
  /\ \A c \in EmbCallers :
       emb[c].error # None => emb[c].error[1].type \in SenseiErrorKinds

RECURSIVE SumRetries(_)
\* the sum of `retries` over a list of provider names
SumRetries(names) ==
  IF names = <<>> THEN 0
  ELSE llm_providers[Head(names)].retries + SumRetries(Tail(names))

\* the requests of a generate call stay within retries per provider and
\* within the sum of retries over the route; a call that ended has a text or
\* an error, never both; an embed call has at most one request per provider
\* for the text it is at
RequestsBounded ==
  /\ \A n \in LLMProviderNames :
       Cardinality(GenRequestsTo(n)) <= llm_providers[n].retries
  /\ Len(gen.requests) <= SumRetries(gen.providers)
  /\ \A j \in 1..Len(gen.requests) :
       \E i \in 1..Len(gen.providers) : gen.providers[i] = gen.requests[j].provider
  /\ gen.pc = "done" => ((gen.result = None) # (gen.error = None))
  /\ \A c \in EmbCallers :
       \A j, k \in 1..Len(emb[c].requests) :
         emb[c].requests[j].provider = emb[c].requests[k].provider => j = k

\* a request never goes to a provider the call has already given up on
NoReturnToGivenUp ==
  Len(gen'.requests) = Len(gen.requests) + 1 =>
    \A g \in 1..Len(gen.gave_up) :
      gen.gave_up[g] # gen'.requests[Len(gen'.requests)].provider

\* C25: every generate call terminates: it sends at most provider.retries
\* requests to any one provider and at most the sum of retries over the
\* route's providers in total, never returns to a provider it has already
\* given up on, and ends by returning a text or raising.  Every embed call
\* sends at most one request per provider per text.
C25_GenerateTerminates ==
  /\ []RequestsBounded
  /\ [][NoReturnToGivenUp]_vars
  /\ (gen.pc \in {"provider", "request"}) ~> (gen.pc = "done")

\* a call used up the retries of both providers of its route and raised,
\* while an embed call had asked each of its two providers once
C25_Witness ==
  /\ gen.pc = "done" /\ gen.error # None
  /\ Len(gen.providers) = 2
  /\ Len(gen.requests) = SumRetries(gen.providers)
  /\ Len(emb["c2"].requests) = 2

\* C26: for every configured value of retries (0 included) a provider that
\* generate selects or falls over from has received at least one HTTP
\* request: generate never reports a provider as failed, nor moves on to the
\* next candidate, without having contacted it.
C26_ContactedBeforeGivenUp ==
  /\ \A g \in 1..Len(gen.gave_up) : GenRequestsTo(gen.gave_up[g]) # {}
  /\ (gen.error # None /\ gen.error[1].provider \in LLMProviderNames) =>
       GenRequestsTo(gen.error[1].provider) # {}

\* the embedding_dim values of the providers of the route of a use case
RouteDims(use_case) ==
  LET names == resolve_route(use_case).providers
  IN {emb_providers[names[j]].embedding_dim : j \in 1..Len(names)}

\* C27: every vector that embed returns for a use case, whether served from
\* the cache or from a provider, has a length equal to the embedding_dim of
\* some provider listed in the route resolved for that call, also when other
\* routes that share the same first-provider model have populated the cache
\* through this client.
C27_ReturnedDimOfRoute ==
  \A c \in EmbCallers :
    LET e == emb[c]
    IN /\ (e.pc = "single_done" /\ e.error = None) =>
            Len(e.results[e.i]) \in RouteDims(e.use_case)
       /\ (e.pc = "done" /\ e.error = None) =>
            \A j \in 1..Len(e.results) : Len(e.results[j]) \in RouteDims(e.use_case)

(***************************************************************************)
(* retry_with_backoff                                                      *)
(***************************************************************************)
Retriable == [kind |-> "SenseiError", retriable |-> TRUE]

\* C28: a function wrapped by retry_with_backoff(retries = n) is invoked at
\* most n + 1 times per call; when every invocation raises a retriable
\* SenseiError the call ends after exactly n + 1 invocations with the error
\* of the last one; when an invocation returns, the call ends there with
\* that invocation's value and no error.
C28_InvokedAtMostRetriesPlusOne ==
  /\ Len(rb.log) <= rb.retries + 1
  /\ (rb.pc = "done" /\ \A i \in 1..Len(rb.log) : rb.log[i] = Retriable)
       => /\ Len(rb.log) = rb.retries + 1
          /\ rb.result = None
          /\ rb.error = Some([kind |-> "SenseiError", retriable |-> TRUE,
                              invocation |-> rb.retries + 1])
  /\ \A i \in 1..Len(rb.log) :
       rb.log[i].kind = "return"
         => /\ i = Len(rb.log)
            /\ rb.pc = "done"
            /\ rb.result = Some(i)
            /\ rb.error = None

\* C28 witness: a call with retries = 2 has ended after three invocations
\* that all raised a retriable SenseiError.
C28_Witness ==
  /\ rb.pc = "done"
  /\ rb.retries = 2
  /\ rb.log = <<Retriable, Retriable, Retriable>>
  /\ rb.error # None

\* an invocation that raised a SenseiError with retriable = False or an
\* exception that is not a SenseiError
Fatal(outcome) ==
  \/ outcome.kind = "SenseiError" /\ ~outcome.retriable
  \/ outcome.kind = "Exception"

\* C29: a SenseiError whose retriable flag is false, and any exception that
\* is not a SenseiError, ends the call at the invocation that raised it: it
\* is the last invocation, the call's error is that error, and the only
\* sleeps are the ones that followed the earlier invocations.
C29_FatalPropagatesAtOnce ==
  \A i \in 1..Len(rb.log) :
    Fatal(rb.log[i])
      => /\ i = Len(rb.log)
         /\ rb.pc = "done"
         /\ rb.result = None
         /\ rb.error = Some([kind |-> rb.log[i].kind, retriable |-> FALSE,
                             invocation |-> i])
         /\ Len(rb.sleeps) = i - 1

\* C29 witness: with retries = 2, the second invocation raised a SenseiError
\* that is not retriable and the call ended there, one retry unused.
C29_Witness ==
  /\ rb.pc = "done"
  /\ rb.retries = 2
  /\ rb.log = <<Retriable, [kind |-> "SenseiError", retriable |-> FALSE]>>
  /\ Len(rb.sleeps) = 1
  /\ rb.error # None

(***************************************************************************)
(* Autosave                                                                *)
(***************************************************************************)
AvDone(c) == av.call[c].pc = "done"

AvSaved(c) ==
  av.call[c].result # None /\ av.call[c].result[1].status = "saved"

AvFailed(c, kind) == av.call[c].error = Some(kind)

\* the call ended on a failure of the database or of the blob store
AvBroke(c) ==
  AvFailed(c, "DatabaseException") \/ AvFailed(c, "BlobStorageException")

\* both calls have ended, neither on a failure of the database or the blob
\* store, and both read a draft row with the same version
BothReadSameVersion ==
  /\ \A c \in AvCallers : AvDone(c) /\ ~AvBroke(c) /\ av.call[c].draft # None
  /\ av.call["a1"].draft[1].status = "draft"
  /\ av.call["a1"].draft[1].version = av.call["a2"].draft[1].version

\* one call returned "saved" with version v + 1, the other raised
\* VersionConflictException, and the document is at version v + 1
OneSavedOneConflict ==
  LET v == av.call["a1"].draft[1].version
  IN  /\ \E c \in AvCallers :
           /\ AvSaved(c)
           /\ av.call[c].result[1].new_version = v + 1
           /\ \A d \in AvCallers \ {c} : AvFailed(d, "VersionConflictException")
      /\ av.doc # None
      /\ av.doc[1].version = v + 1

\* C30 as stated: when two calls read the same version v and each carries a
\* content different from the one stored when it read the row, one returns
\* "saved", the other raises VersionConflictException and the version ends
\* at v + 1.
C30_OneSavedOtherConflicts ==
  ( /\ BothReadSameVersion
    /\ \A c \in AvCallers : av.call[c].stored # Some(av.call[c].content) )
    => OneSavedOneConflict

\* the call fetched the blob and found it different from its own content
AvPassedComparison(c) ==
  /\ av.call[c].current_content # None
  /\ av.call[c].current_content # Some(av.call[c].content)

\* the versioned update by itself: when two calls read the same version v
\* and each finds, when it fetches the blob, a content different from its
\* own, one returns "saved", the other raises VersionConflictException and
\* the version ends at v + 1.
ComparedThenOneSaved ==
  ( /\ BothReadSameVersion
    /\ \A c \in AvCallers : AvPassedComparison(c) )
    => OneSavedOneConflict

\* both calls read version 1 with different new contents, a1 was saved as
\* version 2 and a2 ended with VersionConflictException.
ComparedThenOneSavedReached ==
  /\ BothReadSameVersion
  /\ av.call["a1"].content = "x"
  /\ av.call["a2"].content = "y"
  /\ AvSaved("a1")
  /\ AvFailed("a2", "VersionConflictException")
  /\ av.doc[1].version = 2

\* the document is at its initial version plus the number of calls that
\* returned "saved"
VersionCountsSaved ==
  av.initial # None
    => /\ av.doc # None
       /\ av.doc[1].version = av.initial[1].version + av.saved

\* a call that returned "saved" returns the version it read plus 1
SavedReturnsNextVersion ==
  \A c \in AvCallers :
    AvSaved(c)
      => av.call[c].result[1].new_version = av.call[c].draft[1].version + 1

\* no step lowers the version or removes the row
VersionNeverDecreases ==
  av.doc # None
    => /\ av'.doc # None
       /\ av'.doc[1].version >= av.doc[1].version

\* C31: across every sequence and interleaving of autosave_draft calls the
\* version of the document never decreases and equals the initial version
\* plus the number of calls that returned "saved", and each such call
\* returns the version it read plus 1.
C31_VersionCountsSaves ==
  /\ [](VersionCountsSaved /\ SavedReturnsNextVersion)
  /\ [][VersionNeverDecreases]_vars

\* C31 witness: two calls were saved one after the other, a2's on top of
\* a1's or the reverse, and the document went from version 1 to version 3.
C31_Witness ==
  /\ av.saved = 2
  /\ av.doc # None
  /\ av.doc[1].version = 3
  /\ \A c \in AvCallers : AvSaved(c)
  /\ av.call["a1"].result[1].new_version # av.call["a2"].result[1].new_version

\* no call is between its first and its last step
AvQuiescent == \A c \in AvCallers : av.call[c].pc \in {"idle", "done"}

\* C32: a call that ends with VersionConflictException has not written the
\* blob, and once no call is running (none of the last calls having failed
\* on the database or the blob store) the stored content is the content of
\* the latest call that returned "saved".
C32_ConflictLeavesBlob ==
  /\ \A c \in AvCallers :
       AvFailed(c, "VersionConflictException") => ~av.call[c].wrote
  /\ ( /\ AvQuiescent
       /\ av.last_saved # None
       /\ \A c \in AvCallers : ~AvBroke(c) )
       => av.last_saved = Some(av.blob)

AvUnchanged(c) ==
  av.call[c].result # None /\ av.call[c].result[1].status = "unchanged"

\* call c fetches the blob in this step, and the fetch succeeds
AvFetches(c) ==
  /\ av.call[c].pc = "fetch"
  /\ av'.call[c].pc # "fetch"
  /\ av'.call[c].error = None

\* a fetch that finds the submitted content stored returns "unchanged" with
\* the version and last_updated the call read, and leaves the row and the
\* blob as they were; any other fetch does not return "unchanged"
UnchangedOnEqualContent ==
  \A c \in AvCallers :
    AvFetches(c)
      => IF av.blob = av.call[c].content
         THEN /\ av'.call[c].pc = "done"
              /\ av'.call[c].result =
                   Some([status |-> "unchanged",
                         new_version |-> av.call[c].draft[1].version,
                         last_updated |-> av.call[c].draft[1].last_updated])
              /\ av'.doc = av.doc
              /\ av'.blob = av.blob
         ELSE av'.call[c].result = None

\* a call that returned "unchanged" has uploaded nothing and has never
\* reached the versioned update
UnchangedWroteNothing ==
  \A c \in AvCallers : AvUnchanged(c) => ~av.call[c].wrote

\* only the upload step of a call changes the blob, and only its update
\* step changes the row
OnlyWritersWrite ==
  /\ av'.blob # av.blob => \E c \in AvCallers : av.call[c].pc = "save"
  /\ (av.seeded /\ av'.doc # av.doc) => \E c \in AvCallers : av.call[c].pc = "update"

AvReadsRow(c) ==
  /\ av'.call[c].calls = av.call[c].calls + 1
  /\ av'.call[c].error # Some("DatabaseException")

\* a call that finds no row raises DocumentNotFoundException, a call that
\* finds a row whose status is not 'draft' raises InvalidStatusException, and
\* a call that finds a draft raises neither; the step writes nothing
RejectsMissingAndNonDraft ==
  \A c \in AvCallers :
    AvReadsRow(c)
      => /\ av'.call[c].error =
              IF av.doc = None THEN Some("DocumentNotFoundException")
              ELSE IF av.doc[1].status # "draft"
                   THEN Some("InvalidStatusException")
                   ELSE None
         /\ av'.call[c].error # None => av'.call[c].pc = "done"
         /\ av'.doc = av.doc
         /\ av'.blob = av.blob

\* a call that ended with one of the two exceptions has uploaded nothing
RejectedWroteNothing ==
  \A c \in AvCallers :
    ( \/ AvFailed(c, "DocumentNotFoundException")
      \/ AvFailed(c, "InvalidStatusException") )
      => ~av.call[c].wrote /\ av.call[c].result = None

\* a missing document stays missing, and a document that is not a draft
\* keeps its row and its content
NonDraftUntouched ==
  ( av.seeded /\ (av.initial = None \/ av.initial[1].status # "draft") )
    => av.doc = av.initial /\ av.blob = "s"

\* C34: autosave_draft raises DocumentNotFoundException on a missing
\* document and InvalidStatusException on a document whose status is not
\* 'draft'; in both cases it writes no blob and leaves the row as it was, so
\* the content and the version of a document that is not a draft never
\* change.
C34_RejectedWithoutWrites ==
  /\ [](RejectedWroteNothing /\ NonDraftUntouched)
  /\ [][RejectsMissingAndNonDraft]_vars

\* C34 witness: both requests of a1 on a published document have ended with
\* InvalidStatusException, and the row and the blob are as seeded.
C34_Witness ==
  /\ av.initial # None
  /\ av.initial[1].status = "published"
  /\ av.call["a1"].calls = 2
  /\ AvFailed("a1", "InvalidStatusException")
  /\ av.doc = av.initial
  /\ av.blob = "s"

\* a request on a missing document has ended with DocumentNotFoundException
MissingRejectedReached ==
  /\ av.seeded
  /\ av.initial = None
  /\ AvFailed("a1", "DocumentNotFoundException")

(***************************************************************************)
(* KafkaClient.consume                                                     *)
(***************************************************************************)
Last(seq) == seq[Len(seq)]

\* a commit is called only for the message whose handler has just returned
CommitOnlyAfterReturn ==
  Len(kc'.commits) > Len(kc.commits)
    => /\ kc.handled # <<>>
       /\ Last(kc.handled) = [offset |-> kc.msg, outcome |-> "return"]
       /\ Last(kc'.commits).offset = kc.msg

\* a handler call that raises an Exception leaves the loop running, back at
\* the iteration of the consumer
HandlerErrorKeepsLoop ==
  ( /\ Len(kc'.handled) > Len(kc.handled)
    /\ Last(kc'.handled).outcome = "Exception" )
    => /\ kc'.pc = "polling"
       /\ kc'.running
       /\ Len(kc'.commits) = Len(kc.commits)

\* the consumer runs exactly while consume is inside its loop
StoppedWhenLoopExits ==
  kc.running <=> kc.pc \in {"polling", "handling", "committing"}

\* C35: consume calls commit for a message only after the handler for that
\* message has returned without raising; a handler exception does not end
\* the loop, which goes on to the next message; and the consumer is stopped
\* whenever the loop is left.
C35_CommitAfterHandler ==
  /\ []StoppedWhenLoopExits
  /\ [][CommitOnlyAfterReturn /\ HandlerErrorKeepsLoop]_vars

\* C35 witness: the handler raised on message 1, message 2 was then
\* delivered, handled and committed, and the loop has been left with the
\* consumer stopped.
C35_Witness ==
  /\ kc.handled = << [offset |-> 1, outcome |-> "Exception"],
                     [offset |-> 2, outcome |-> "return"] >>
  /\ kc.commits = << [offset |-> 2, ok |-> TRUE] >>
  /\ kc.pc = "stopped"
  /\ ~kc.running

\* the handler has returned for message m at least once
HandlerReturnedFor(m) ==
  \E j \in 1..Len(kc.handled) :
    kc.handled[j] = [offset |-> m, outcome |-> "return"]

\* C36: the committed offset of the group never passes a message whose
\* handler has not returned: a message whose handler raised stays at or
\* after the committed offset, from which a restarted consumer reads.
C36_FailedNeverCommitted ==
  \A m \in 1..MaxOffset : m < kc.committed => HandlerReturnedFor(m)

(***************************************************************************)
(* delete_blob                                                             *)
(***************************************************************************)
\* the path begins, character by character, with "tenant/", the tenant id
\* and "/"
HasTenantPrefix(path, tenant_id) ==
  LET prefix == ExpectedPrefix(tenant_id)
  IN  \A i \in 1..Len(prefix) : i <= Len(path) /\ path[i] = prefix[i]

DlAsked(op) ==
  \E i \in 1..Len(dl.requests) : dl.requests[i].op = op

\* C37: delete_blob issues no storage delete for a path that does not start
\* with "tenant/{tenant_id}/" and returns False for it without any storage
\* call; it returns True only when the blob existed and the delete was
\* issued; and when the blob does not exist it returns False without a
\* delete.
C37_DeleteOnlyUnderTenant ==
  /\ ~HasTenantPrefix(dl.blob_path, dl.tenant_id)
       => /\ dl.requests = <<>>
          /\ dl.pc = "done" => dl.result = Some(FALSE) /\ dl.error = None
          /\ dl.store = dl.store0
  /\ dl.result = Some(TRUE)
       => /\ dl.blob_path \in dl.store0
          /\ DlAsked("delete")
          /\ dl.store = dl.store0 \ {dl.blob_path}
  /\ ( /\ dl.pc = "done"
       /\ dl.error = None
       /\ HasTenantPrefix(dl.blob_path, dl.tenant_id)
       /\ dl.blob_path \notin dl.store0 )
       => /\ dl.result = Some(FALSE)
          /\ ~DlAsked("delete")
          /\ dl.store = dl.store0

\* C37 witness: called for tenant "1" with the path "tenant/12/a" of another
\* tenant, whose blob exists, delete_blob has returned False with no storage
\* call.
C37_Witness ==
  /\ dl.pc = "done"
  /\ dl.tenant_id = <<"1">>
  /\ dl.blob_path = <<"t", "e", "n", "a", "n", "t", "/", "1", "2", "/", "a">>
  /\ dl.blob_path \in dl.store
  /\ dl.result = Some(FALSE)
  /\ dl.requests = <<>>

\* a blob under the tenant's prefix existed, was deleted, and delete_blob
\* returned True
DeletedReached ==
  /\ dl.result = Some(TRUE)
  /\ DlAsked("delete")
  /\ dl.blob_path \notin dl.store

(***************************************************************************)
(* classify_ontology                                                       *)
(***************************************************************************)
\* C38: classify_ontology never raises because of the LLM fallback: with the
\* fallback disabled, or a rule score of at least min_rule_score, it returns
\* the rule-based label without a call of the LLM, and when the LLM path
\* fails (building the router, generate, parsing the answer) it returns the
\* rule-based label.
C38_FallbackNeverRaises ==
  ont.pc = "done"
    => /\ ont.error = None
       /\ ont.result # None
       /\ (~ont.enabled \/ ont.base[1].score >= min_rule_score)
            => /\ ont.result = ont.base
               /\ ont.llm_calls = 0
               /\ ont.router = None
       /\ ( \/ ont.router = None
            \/ ont.generated \in { Some("RuntimeError"), Some("array"),
                                  Some("not_json") } )
            => ont.result = ont.base

=============================================================================
